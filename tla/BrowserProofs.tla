----------------------------- MODULE BrowserProofs -----------------------------
(***************************************************************************)
(* Proofs about Browser, for any length of the list and any number of      *)
(* calls: no panel has two calls in flight, what a panel shows is the      *)
(* result of its last call, and the list holds the last results.           *)
(***************************************************************************)
EXTENDS Browser, FiniteSetTheorems, SequenceTheorems, TLAPS

-----------------------------------------------------------------------------
(* The inductive invariant *)

PageInv == page \in {"open", "leaving", "login", "entering"} /\ logout \in BOOLEAN

\* A call from a panel is the only one of it and its last one, the panel is busy as long,
\* and nothing has aborted it.
CallsOfPanels ==
    /\ \A c \in calls : c.kind \in Panels =>
         panel[c.kind].busy /\ panel[c.kind].latest = c.id /\ ~c.aborted
    /\ \A c, d \in calls : c.kind \in Panels /\ c.kind = d.kind => c = d

PanelInv ==
    /\ panel \in [Panels -> Panel] /\ calls \subseteq ApiCall /\ issued \in Ids
    /\ CallsOfPanels /\ LatestShown

\* The list is the end of what was saved, backwards.
HistoryInv ==
    /\ stored \in Seq(Ids) /\ saved \in Seq(Ids)
    /\ Len(stored) = IF MaxHistory <= Len(saved) THEN MaxHistory ELSE Len(saved)
    /\ \A i \in 1 .. Len(stored) : stored[i] = saved[Len(saved) + 1 - i]

IInv == PageInv /\ PanelInv /\ HistoryInv

-----------------------------------------------------------------------------
(* Operators *)

LEMMA MinOfTwo ==
    ASSUME NEW a \in Nat, NEW b \in Nat
    PROVE  Min({a, b}) = IF a <= b THEN a ELSE b
<1> DEFINE m == IF a <= b THEN a ELSE b
<1>1. m \in {a, b} /\ \A y \in {a, b} : m <= y
  OBVIOUS
<1>2. \A x \in {a, b} : (\A y \in {a, b} : x <= y) => x = m
  OBVIOUS
<1>3. (CHOOSE x \in {a, b} : \A y \in {a, b} : x <= y) = m
  BY ONLY <1>1, <1>2
<1>4. QED
  BY <1>3 DEF Min

\* unshift and slice, seen from the places of the list.
LEMMA NewestFirstEffect ==
    ASSUME stored \in Seq(Ids), NEW id \in Ids
    PROVE  /\ NewestFirst(id) \in Seq(Ids)
           /\ Len(NewestFirst(id)) = IF MaxHistory <= Len(stored) + 1
                                     THEN MaxHistory ELSE Len(stored) + 1
           /\ \A i \in 1 .. Len(NewestFirst(id)) :
                NewestFirst(id)[i] = IF i = 1 THEN id ELSE stored[i - 1]
<1> DEFINE longer == <<id>> \o stored
           len == Len(stored)
           n == IF MaxHistory <= len + 1 THEN MaxHistory ELSE len + 1
<1>1. len \in Nat /\ MaxHistory \in Nat /\ MaxHistory # 0
  BY LenProperties, BrowserAssumption
<1>2. /\ longer \in Seq(Ids) /\ Len(longer) = len + 1
      /\ \A i \in 1 .. (len + 1) : longer[i] = IF i = 1 THEN id ELSE stored[i - 1]
  <2>1. <<id>> \in Seq(Ids) /\ Len(<<id>>) = 1 /\ <<id>>[1] = id
    OBVIOUS
  <2>2. /\ longer \in Seq(Ids) /\ Len(longer) = Len(<<id>>) + Len(stored)
        /\ \A i \in 1 .. Len(<<id>>) + Len(stored) :
             longer[i] = IF i <= Len(<<id>>) THEN <<id>>[i] ELSE stored[i - Len(<<id>>)]
    BY <2>1, ConcatProperties
  <2>3. \A i \in 1 .. (len + 1) : longer[i] = IF i <= 1 THEN <<id>>[i] ELSE stored[i - 1]
    BY <1>1, <2>1, <2>2
  <2>4. \A i \in 1 .. (len + 1) : i <= 1 <=> i = 1
    BY <1>1
  <2> HIDE DEF longer
  <2>5. QED
    BY <1>1, <2>1, <2>2, <2>3, <2>4
<1>3. NewestFirst(id) = SubSeq(longer, 1, n)
  BY <1>1, MinOfTwo DEF NewestFirst
<1> HIDE DEF longer
<1>4. n \in 1 .. (len + 1)
  BY <1>1
<1> HIDE DEF n
<1>5. \A i \in 1 .. n : longer[i] \in Ids
  <2>1. \A i \in 1 .. n : i \in 1 .. Len(longer)
    BY <1>1, <1>2, <1>4
  <2>2. QED
    BY <1>2, <2>1, ElementOfSeq
<1>6. /\ SubSeq(longer, 1, n) \in Seq(Ids)
      /\ Len(SubSeq(longer, 1, n)) = (IF 1 <= n THEN n - 1 + 1 ELSE 0)
      /\ \A i \in 1 .. (n - 1 + 1) : SubSeq(longer, 1, n)[i] = longer[1 + i - 1]
  <2>1. n \in Int /\ 1 \in Int
    BY <1>1, <1>4
  <2>2. QED
    BY ONLY <1>5, <2>1, SubSeqProperties
<1>7. Len(NewestFirst(id)) = n /\ NewestFirst(id) \in Seq(Ids)
  BY <1>1, <1>3, <1>4, <1>6
<1>8. \A i \in 1 .. n : NewestFirst(id)[i] = longer[i] /\ i \in 1 .. (len + 1)
  BY <1>1, <1>3, <1>4, <1>6
<1>9. QED
  BY <1>2, <1>7, <1>8 DEF n

-----------------------------------------------------------------------------
(* The list of results *)

\* A result goes to the front of the list and to the end of what was saved.
LEMMA SaveKeeps ==
    ASSUME HistoryInv, NEW c \in ApiCall, SaveHistoryEntry(c)
    PROVE  HistoryInv'
<1>1. CASE UNCHANGED storage
  BY <1>1 DEF storage, HistoryInv
<1>2. CASE stored' = NewestFirst(c.id) /\ saved' = Append(saved, c.id)
  <2> DEFINE len == Len(stored)
             all == Len(saved)
  <2>1. c.id \in Ids
    BY DEF ApiCall
  <2>2. /\ len \in Nat /\ all \in Nat /\ MaxHistory \in Nat /\ MaxHistory # 0
        /\ len = IF MaxHistory <= all THEN MaxHistory ELSE all
        /\ \A i \in 1 .. len : stored[i] = saved[all + 1 - i]
    BY LenProperties, BrowserAssumption DEF HistoryInv
  <2>3. /\ stored' \in Seq(Ids)
        /\ Len(stored') = IF MaxHistory <= len + 1 THEN MaxHistory ELSE len + 1
        /\ \A i \in 1 .. Len(stored') : stored'[i] = IF i = 1 THEN c.id ELSE stored[i - 1]
    BY <1>2, <2>1, NewestFirstEffect DEF HistoryInv
  <2>4. /\ saved' \in Seq(Ids) /\ Len(saved') = all + 1 /\ saved'[all + 1] = c.id
        /\ \A i \in 1 .. all : saved'[i] = saved[i]
    BY <1>2, <2>1, AppendProperties DEF HistoryInv
  <2> DEFINE len1 == Len(stored')
             all1 == Len(saved')
  <2>5. /\ all1 = all + 1 /\ len1 = IF MaxHistory <= len + 1 THEN MaxHistory ELSE len + 1
    BY <2>3, <2>4
  <2>6. ASSUME NEW i \in 1 .. len1 PROVE stored'[i] = saved'[all1 + 1 - i]
    <3>1. stored'[i] = IF i = 1 THEN c.id ELSE stored[i - 1]
      BY <2>3
    <3> HIDE DEF len, all, len1, all1
    <3>2. CASE i = 1
      <4>1. all1 + 1 - i = all + 1
        BY <2>2, <2>5, <3>2
      <4>2. QED
        BY <2>4, <3>1, <3>2, <4>1 DEF all
    <3>3. CASE i # 1
      <4>1. /\ i - 1 \in 1 .. len /\ all1 + 1 - i \in 1 .. all
            /\ all + 1 - (i - 1) = all1 + 1 - i
        BY <2>2, <2>5, <3>3
      <4>2. stored[i - 1] = saved[all1 + 1 - i]
        BY <2>2, <4>1
      <4>3. saved'[all1 + 1 - i] = saved[all1 + 1 - i]
        BY <2>4, <4>1 DEF all
      <4>4. QED
        BY <3>1, <3>3, <4>2, <4>3
    <3>4. QED
      BY <3>2, <3>3
  <2>7. len1 = IF MaxHistory <= all1 THEN MaxHistory ELSE all1
    <3> HIDE DEF len, all, len1, all1
    <3> QED
      BY <2>2, <2>5
  <2>8. QED
    BY <2>3, <2>4, <2>6, <2>7 DEF HistoryInv
<1>3. QED
  BY <1>1, <1>2 DEF SaveHistoryEntry

LEMMA EmptyList ==
    ASSUME stored' = << >>, saved' = << >>
    PROVE  HistoryInv'
  BY BrowserAssumption DEF HistoryInv

-----------------------------------------------------------------------------
(* Calls and panels *)

\* Where no call is in flight and nothing is shown.
LEMMA FreshPanels == Fresh \in [Panels -> Panel] /\ \A k \in Panels : Fresh[k].shown = 0
  BY BrowserAssumption DEF Fresh, Panel, Running

\* The page is loaded, and asks for the user.
LEMMA LoadKeeps ==
    ASSUME PanelInv, LoadPage
    PROVE  PanelInv'
<1> DEFINE new == [id |-> issued + 1, kind |-> "ME", pc |-> "fetch", aborted |-> FALSE]
<1>1. panel' = Fresh /\ calls' = {new} /\ issued' = issued + 1 /\ issued < MaxCalls
  BY DEF LoadPage, Fetch
<1>2. issued' \in Ids
  BY <1>1, BrowserAssumption DEF PanelInv, Ids
<1>3. new \in ApiCall /\ new.kind \notin Panels
  BY <1>1, <1>2 DEF ApiCall, Panels, Forms
<1>4. CallsOfPanels'
  BY <1>1, <1>3 DEF CallsOfPanels
<1>5. QED
  BY <1>1, <1>2, <1>3, <1>4, FreshPanels DEF PanelInv, LatestShown

\* A call is made from a panel that has none.
LEMMA StartKeeps ==
    ASSUME PanelInv, NEW k \in Panels, ~panel[k].busy, Fetch(k, calls), Started(k)
    PROVE  PanelInv'
<1> DEFINE new == [id |-> issued + 1, kind |-> k, pc |-> "fetch", aborted |-> FALSE]
           now == [busy |-> TRUE, shown |-> Running, latest |-> issued + 1]
<1>1. /\ issued < MaxCalls /\ issued' = issued + 1 /\ calls' = calls \cup {new}
      /\ panel' = [panel EXCEPT ![k] = now]
  BY DEF Fetch, Started
<1>2. issued' \in Ids /\ issued + 1 \in 0 .. MaxCalls /\ Running \in 0 .. Running
  BY <1>1, BrowserAssumption DEF PanelInv, Ids, Running
<1>3. new \in ApiCall /\ new.kind = k /\ new.id = issued + 1 /\ new.aborted = FALSE
  BY <1>1, <1>2 DEF ApiCall
<1>4. now \in Panel /\ now.busy = TRUE /\ now.latest = issued + 1 /\ now.shown = Running
  BY <1>2 DEF Panel
<1> HIDE DEF new, now
<1>5. /\ panel' \in [Panels -> Panel] /\ panel'[k] = now
      /\ \A x \in Panels \ {k} : panel'[x] = panel[x]
  BY <1>1, <1>4 DEF PanelInv
<1>6. \A c \in calls : c.kind # k
  BY DEF PanelInv, CallsOfPanels
<1>7. CallsOfPanels'
  <2>1. \A c \in calls' : c = new \/ (c \in calls /\ c.kind # k)
    BY <1>1, <1>6
  <2>2. \A c \in calls' : c.kind \in Panels =>
          panel'[c.kind].busy /\ panel'[c.kind].latest = c.id /\ ~c.aborted
    BY <1>3, <1>4, <1>5, <2>1 DEF PanelInv, CallsOfPanels
  <2>3. \A c, d \in calls' : c.kind \in Panels /\ c.kind = d.kind => c = d
    BY <1>3, <2>1 DEF PanelInv, CallsOfPanels
  <2>4. QED
    BY <2>2, <2>3 DEF CallsOfPanels
<1>8. LatestShown'
  BY <1>4, <1>5 DEF PanelInv, LatestShown
<1>9. QED
  BY <1>1, <1>2, <1>3, <1>5, <1>7, <1>8 DEF PanelInv

\* A panel that is not busy has no call that could be aborted.
LEMMA NothingToAbort ==
    ASSUME PanelInv, NEW k \in Panels, ~panel[k].busy
    PROVE  Aborted(k) = calls
<1>1. \A c \in calls : c.kind # k
  BY DEF PanelInv, CallsOfPanels
<1>2. QED
  BY <1>1 DEF Aborted

\* The handler of a call that has ended shows its result.
LEMMA HandleKeeps ==
    ASSUME PanelInv, NEW c \in calls, Handle(c)
    PROVE  PanelInv'
<1>1. calls' = calls \ {c} /\ issued' = issued /\ c \in ApiCall
  BY DEF Handle, PanelInv
<1>2. CASE c.kind \notin Panels
  <2>1. panel' = panel
    BY <1>2 DEF Handle
  <2>2. QED
    BY <1>1, <2>1 DEF PanelInv, CallsOfPanels, LatestShown
<1>3. CASE c.kind \in Panels
  <2>1. PICK k \in Panels : k = c.kind
    BY <1>3
  <2>2. PICK now : now = [panel[k] EXCEPT !.busy = FALSE, !.shown = c.id]
    OBVIOUS
  <2>3. panel' = [panel EXCEPT ![k] = now]
    BY <2>1, <2>2 DEF Handle
  <2>4. c.id \in Ids /\ c.id \in 0 .. Running /\ panel[k].latest = c.id /\ panel[k] \in Panel
    BY <1>1, <2>1, BrowserAssumption DEF ApiCall, Ids, Running, PanelInv, CallsOfPanels
  <2>5. now \in Panel /\ now.shown = c.id /\ now.latest = c.id
    BY <2>2, <2>4 DEF Panel
  <2>6. /\ panel' \in [Panels -> Panel] /\ panel'[k] = now
        /\ \A x \in Panels \ {k} : panel'[x] = panel[x]
    BY <2>3, <2>5 DEF PanelInv
  <2>7. \A d \in calls' : d \in calls /\ d.kind # k
    BY <1>1, <2>1 DEF PanelInv, CallsOfPanels
  <2>8. CallsOfPanels'
    BY <2>6, <2>7 DEF PanelInv, CallsOfPanels
  <2>9. LatestShown'
    BY <2>5, <2>6 DEF PanelInv, LatestShown
  <2>10. QED
    BY <1>1, <2>6, <2>8, <2>9 DEF PanelInv
<1>4. QED
  BY <1>2, <1>3

\* The answer has come, its body has not.
LEMMA AnsweredKeeps ==
    ASSUME PanelInv, NEW c \in calls, Answered(c)
    PROVE  PanelInv'
<1>1. PICK d : d = [c EXCEPT !.pc = "json"]
  OBVIOUS
<1>2. c \in ApiCall /\ calls' = (calls \ {c}) \cup {d} /\ panel' = panel /\ issued' = issued
  BY <1>1 DEF Answered, PanelInv
<1>3. d \in ApiCall /\ d.kind = c.kind /\ d.id = c.id /\ d.aborted = c.aborted
  BY <1>1, <1>2 DEF ApiCall
<1>4. CallsOfPanels'
  <2>1. \A x \in calls' : x.kind \in Panels =>
          panel'[x.kind].busy /\ panel'[x.kind].latest = x.id /\ ~x.aborted
    BY <1>2, <1>3 DEF PanelInv, CallsOfPanels
  <2>2. ASSUME NEW x \in calls', NEW y \in calls', x.kind \in Panels, x.kind = y.kind
        PROVE  x = y
    BY <1>2, <1>3, <2>2 DEF PanelInv, CallsOfPanels
  <2>3. QED
    BY <2>1, <2>2 DEF CallsOfPanels
<1>5. QED
  BY <1>2, <1>3, <1>4 DEF PanelInv, LatestShown

-----------------------------------------------------------------------------
(* The invariant *)

LEMMA InitInv == Init => IInv
<1> SUFFICES ASSUME Init PROVE IInv
  OBVIOUS
<1> DEFINE me == [id |-> 1, kind |-> "ME", pc |-> "fetch", aborted |-> FALSE]
<1>1. issued \in Ids /\ 1 \in Ids
  BY BrowserAssumption DEF Init, Ids
<1>2. calls = {me} /\ me \in ApiCall /\ me.kind \notin Panels
  BY <1>1 DEF Init, ApiCall, Panels, Forms
<1>3. PanelInv
  BY <1>1, <1>2, FreshPanels DEF Init, PanelInv, CallsOfPanels, LatestShown
<1>4. HistoryInv
  BY BrowserAssumption DEF Init, HistoryInv
<1>5. QED
  BY <1>3, <1>4 DEF Init, IInv, PageInv

\* What a step of the calls does: to the panels, and to the list.
LEMMA SettleKeeps ==
    ASSUME IInv, NEW id \in Ids, Settle(id)
    PROVE  IInv'
<1>1. PICK c \in calls : FetchFails(c) \/ Unauthorized(c) \/ Answered(c) \/ BodyRead(c)
  BY DEF Settle
<1>2. PageInv /\ PanelInv /\ HistoryInv /\ c \in ApiCall
  BY DEF IInv, PanelInv
<1>3. CASE Handle(c)
  <2>1. PanelInv'
    BY <1>2, <1>3, HandleKeeps
  <2>2. HistoryInv'
    BY <1>2, <1>3, SaveKeeps DEF Handle
  <2>3. PageInv'
    BY <1>1, <1>2 DEF PageInv, FetchFails, Unauthorized, Answered, BodyRead, PageAfter
  <2>4. QED
    BY <2>1, <2>2, <2>3 DEF IInv
<1>4. CASE calls' = calls \ {c} /\ UNCHANGED <<page, panel, storage, issued, logout>>
  <2>1. PanelInv'
    BY <1>2, <1>4 DEF PanelInv, CallsOfPanels, LatestShown
  <2>2. QED
    BY <1>2, <1>4, <2>1 DEF IInv, PageInv, HistoryInv, storage
<1>5. CASE Answered(c)
  <2>1. PanelInv'
    BY <1>2, <1>5, AnsweredKeeps
  <2>2. QED
    BY <1>2, <1>5, <2>1 DEF IInv, PageInv, HistoryInv, storage, Answered
<1>6. QED
  BY <1>1, <1>3, <1>4, <1>5 DEF FetchFails, Unauthorized, BodyRead

LEMMA StepInv == IInv /\ [Next]_vars => IInv'
<1> SUFFICES ASSUME IInv, [Next]_vars PROVE IInv'
  OBVIOUS
<1>1. PageInv /\ PanelInv /\ HistoryInv
  BY DEF IInv
<1>2. ASSUME PanelInv', UNCHANGED <<page, logout, storage>> PROVE IInv'
  BY <1>1, <1>2 DEF IInv, PageInv, HistoryInv, storage
<1>3. CASE UNCHANGED vars
  BY <1>1, <1>3 DEF vars, IInv, PageInv, PanelInv, CallsOfPanels, LatestShown, HistoryInv
<1>4. ASSUME NEW k \in Panels, Submit(k) PROVE IInv'
  <2>1. Aborted(k) = calls
    BY <1>1, <1>4, NothingToAbort DEF Submit
  <2>2. PanelInv'
    BY <1>1, <1>4, <2>1, StartKeeps DEF Submit
  <2>3. QED
    BY <1>2, <1>4, <2>2 DEF Submit
<1>5. CASE HttpForm \/ PortForm \/ DnsForm
  BY <1>4, <1>5 DEF HttpForm, PortForm, DnsForm, Panels, Forms
<1>6. CASE LoadClientInfo
  <2>1. PanelInv'
    BY <1>1, <1>6, StartKeeps DEF LoadClientInfo, Panels
  <2>2. QED
    BY <1>2, <1>6, <2>1 DEF LoadClientInfo
<1>7. CASE ClickLogout
  <2> DEFINE new == [id |-> issued + 1, kind |-> "LOGOUT", pc |-> "fetch", aborted |-> FALSE]
  <2>1. /\ calls' = calls \cup {new} /\ issued' = issued + 1 /\ issued < MaxCalls
        /\ UNCHANGED <<page, panel, logout, storage>>
    BY <1>7 DEF ClickLogout, Fetch
  <2>2. issued' \in Ids
    BY <1>1, <2>1, BrowserAssumption DEF PanelInv, Ids
  <2>3. new \in ApiCall /\ new.kind \notin Panels
    BY <2>1, <2>2 DEF ApiCall, Panels, Forms
  <2> HIDE DEF new
  <2>4. PanelInv'
    BY <1>1, <2>1, <2>2, <2>3 DEF PanelInv, CallsOfPanels, LatestShown
  <2>5. QED
    BY <1>2, <2>1, <2>4
<1>8. CASE ClearHistory
  <2>1. HistoryInv'
    BY <1>8, EmptyList DEF ClearHistory
  <2>2. QED
    BY <1>1, <1>8, <2>1
    DEF ClearHistory, IInv, PageInv, PanelInv, CallsOfPanels, LatestShown
<1>9. CASE LoadPage
  <2>1. PanelInv'
    BY <1>1, <1>9, LoadKeeps
  <2>2. QED
    BY <1>1, <1>9, <2>1 DEF LoadPage, IInv, PageInv, HistoryInv, storage
<1>10. CASE ShowLogin
  <2>1. panel' = Fresh /\ calls' = {} /\ issued' = issued
    BY <1>10 DEF ShowLogin
  <2>2. PanelInv'
    BY <1>1, <2>1, FreshPanels DEF PanelInv, CallsOfPanels, LatestShown
  <2>3. QED
    BY <1>1, <1>10, <2>2 DEF ShowLogin, IInv, PageInv, HistoryInv, storage
<1>11. CASE SubmitLogin \/ LoginFails
  BY <1>1, <1>11 DEF SubmitLogin, LoginFails, IInv, PageInv, PanelInv, CallsOfPanels,
                     LatestShown, HistoryInv, storage
<1>12. QED
  BY <1>3, <1>5, <1>6, <1>7, <1>8, <1>9, <1>10, <1>11, SettleKeeps
  DEF Next, Reload, LoginSucceeds

THEOREM Invariance == Spec => []IInv
<1>1. QED
  BY InitInv, StepInv, PTL DEF Spec

\* The page keeps its shape, and the list is never longer than MAX_HISTORY.
THEOREM TypeCorrect == Spec => []TypeOK
<1>1. IInv => TypeOK
  <2> SUFFICES ASSUME IInv PROVE TypeOK
    OBVIOUS
  <2>1. Len(stored) <= MaxHistory
    BY LenProperties, BrowserAssumption DEF IInv, HistoryInv
  <2>2. QED
    BY <2>1 DEF IInv, PageInv, PanelInv, HistoryInv, TypeOK
<1>2. QED
  BY Invariance, <1>1, PTL

\* However often its button is clicked and however the calls end, a panel has at most one
\* call in flight (the disabled buttons and clientInfoLoading of app.js).
THEOREM PanelsCallOnce == Spec => []OneAtATime
<1>1. IInv => OneAtATime
  <2> SUFFICES ASSUME IInv, NEW k \in Panels
               PROVE  Cardinality({c \in calls : c.kind = k}) <= 1
    BY DEF OneAtATime
  <2> DEFINE those == {c \in calls : c.kind = k}
  <2>1. \A c, d \in those : c = d
    BY DEF IInv, PanelInv, CallsOfPanels
  <2>2. CASE those = {}
    BY <2>2, FS_EmptySet
  <2>3. CASE \E c \in those : TRUE
    <3>1. PICK c \in those : TRUE
      BY <2>3
    <3>2. those = {c}
      BY <2>1, <3>1
    <3> HIDE DEF those
    <3>3. Cardinality(those) = 1
      BY <3>2, FS_Singleton
    <3>4. QED
      BY <3>3 DEF those
  <2>4. QED
    BY <2>2, <2>3
<1>2. QED
  BY Invariance, <1>1, PTL

\* What a panel shows is the result of the last call that was made from it.
THEOREM ShownIsLatest == Spec => []LatestShown
<1>1. IInv => LatestShown
  BY DEF IInv, PanelInv
<1>2. QED
  BY Invariance, <1>1, PTL

\* The list holds the results saved last, newest first, whatever order they came in
\* (saveHistoryEntry of app.js).
THEOREM ListIsRecent == Spec => []HistoryIsRecent
<1>1. IInv => HistoryIsRecent
  <2> SUFFICES ASSUME IInv PROVE HistoryIsRecent
    OBVIOUS
  <2>1. Len(saved) \in Nat /\ Len(stored) \in Nat /\ MaxHistory \in Nat
    BY LenProperties, BrowserAssumption DEF IInv, HistoryInv
  <2>2. Min({MaxHistory, Len(saved)}) = Len(stored)
    BY <2>1, MinOfTwo DEF IInv, HistoryInv
  <2>3. \A i \in 1 .. Len(stored) : i <= Len(stored)
    BY <2>1
  <2>4. QED
    BY <2>2, <2>3 DEF IInv, HistoryInv, HistoryIsRecent
<1>2. QED
  BY Invariance, <1>1, PTL
=============================================================================
