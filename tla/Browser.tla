------------------------------- MODULE Browser -------------------------------
(***************************************************************************)
(* app/static/js/app.js and login.js in one window of a browser: the three *)
(* diagnosis forms, the client information, the login, and the list of     *)
(* recent results in localStorage. A handler runs from one await to the    *)
(* next without interruption. Calls to the service are numbered in the     *)
(* order they are made.                                                    *)
(***************************************************************************)
EXTENDS Naturals, Sequences, FiniteSets, SequencesExt

CONSTANTS
    MaxHistory,         \* MAX_HISTORY
    MaxCalls            \* bound on the calls to the service

VARIABLES
    page,               \* "open", "leaving" after location.replace, "login", "entering"
    panel,              \* the forms and the client information
    logout,             \* whether the logout button is shown
    calls,              \* what callApi is waiting for
    stored,             \* localStorage: the calls whose results are listed
    issued,             \* the number of the last call
    saved               \* the results that were saved since the list was last cleared

vars == <<page, panel, logout, calls, stored, issued, saved>>
storage == <<stored, saved>>

ASSUME BrowserAssumption == MaxHistory \in Nat \ {0} /\ MaxCalls \in Nat \ {0}

Forms == {"HTTP", "PORT", "DNS"}
Panels == Forms \cup {"CLIENT"}
Ids == 1 .. MaxCalls

\* What a result area shows: the result of a call, the placeholder of one that runs, or 0.
Running == MaxCalls + 1

\* "busy" is the disabled button of a form, or clientInfoLoading. "latest" is there for
\* the properties: the last call made from the panel.
Panel == [busy : BOOLEAN, shown : 0 .. Running, latest : 0 .. MaxCalls]
Fresh == [k \in Panels |-> [busy |-> FALSE, shown |-> 0, latest |-> 0]]

\* "json": the answer has come and response.json() is awaited.
ApiCall == [id : Ids, kind : Panels \cup {"ME", "LOGOUT"}, pc : {"fetch", "json"},
            aborted : BOOLEAN]

Alive == page \in {"open", "leaving"}

\* callApi, called while "others" are in flight.
Fetch(kind, others) ==
    /\ issued < MaxCalls
    /\ issued' = issued + 1
    /\ calls' = others \cup
         {[id |-> issued + 1, kind |-> kind, pc |-> "fetch", aborted |-> FALSE]}

\* The page is loaded: initializeAuthentication asks for the user. What the page before it
\* waited for is dropped.
LoadPage ==
    /\ page' = "open"
    /\ panel' = Fresh
    /\ logout' = FALSE
    /\ Fetch("ME", {})
    /\ UNCHANGED storage

Init ==
    /\ page = "open" /\ panel = Fresh /\ logout = FALSE
    /\ issued = 1
    /\ calls = {[id |-> 1, kind |-> "ME", pc |-> "fetch", aborted |-> FALSE]}
    /\ stored = << >> /\ saved = << >>

-----------------------------------------------------------------------------
(* The user *)

\* The controller of the panel's last call is aborted. While buttons are disabled as they
\* are, that call has always ended, and the abort does nothing.
Aborted(k) == {IF c.kind = k THEN [c EXCEPT !.aborted = TRUE] ELSE c : c \in calls}

\* Mutant: the button stays enabled.
StartedEnabled(k) == panel' = [panel EXCEPT ![k] =
    [busy |-> FALSE, shown |-> Running, latest |-> issued + 1]]

Started(k) == panel' = [panel EXCEPT ![k] =
    [busy |-> TRUE, shown |-> Running, latest |-> issued + 1]]

\* A form with valid input. A browser submits no form whose button is disabled.
Submit(k) ==
    /\ Alive
    /\ ~panel[k].busy
    /\ Fetch(k, Aborted(k))
    /\ Started(k)
    /\ UNCHANGED <<page, logout, storage>>

HttpForm == Submit("HTTP")
PortForm == Submit("PORT")
DnsForm == Submit("DNS")

\* Mutant: clientInfoLoading is not looked at.
LoadClientInfoAgain ==
    /\ Alive
    /\ Fetch("CLIENT", calls)
    /\ Started("CLIENT")
    /\ UNCHANGED <<page, logout, storage>>

\* By the tab or by the button.
LoadClientInfo ==
    /\ Alive
    /\ ~panel["CLIENT"].busy
    /\ Fetch("CLIENT", calls)
    /\ Started("CLIENT")
    /\ UNCHANGED <<page, logout, storage>>

\* The button stays enabled, so logout may be called more than once.
ClickLogout ==
    /\ Alive /\ logout
    /\ Fetch("LOGOUT", calls)
    /\ UNCHANGED <<page, panel, logout, storage>>

ClearHistory ==
    /\ Alive
    /\ stored' = << >> /\ saved' = << >>
    /\ UNCHANGED <<page, panel, logout, calls, issued>>

Reload == Alive /\ LoadPage

-----------------------------------------------------------------------------
(* The answers *)

\* Mutants: the oldest results are kept; the list is not cut.
OldestFirst(id) == SubSeq(Append(stored, id), 1, Min({MaxHistory, Len(stored) + 1}))
Uncut(id) == <<id>> \o stored

\* unshift and slice
NewestFirst(id) == SubSeq(<<id>> \o stored, 1, Min({MaxHistory, Len(stored) + 1}))

\* A result of a form is saved, successful or not, unless localStorage refuses it.
SaveHistoryEntry(c) ==
    \/ /\ c.kind \in Forms
       /\ stored' = NewestFirst(c.id)
       /\ saved' = Append(saved, c.id)
    \/ UNCHANGED storage

\* What a handler does with the envelope callApi has returned.
Handle(c) ==
    /\ calls' = calls \ {c}
    /\ panel' = IF c.kind \in Panels
                THEN [panel EXCEPT ![c.kind] = [@ EXCEPT !.busy = FALSE, !.shown = c.id]]
                ELSE panel
    /\ SaveHistoryEntry(c)
    /\ UNCHANGED issued

\* Whatever came of it, the logout goes to the login page.
PageAfter(c) == page' = IF c.kind = "LOGOUT" THEN "leaving" ELSE page

\* Mutant: a network error ends the handler too.
FetchFailsForGood(c) ==
    /\ c.pc = "fetch"
    /\ calls' = calls \ {c}
    /\ UNCHANGED <<page, panel, logout, storage, issued>>

\* AbortError ends the handler where it is; any other failure is an envelope.
FetchFails(c) ==
    /\ c.pc = "fetch"
    /\ IF c.aborted
       THEN calls' = calls \ {c} /\ UNCHANGED <<page, panel, storage, issued>>
       ELSE Handle(c) /\ PageAfter(c)
    /\ UNCHANGED logout

\* 401: the login page is on its way, and the handler gets an envelope nevertheless.
Unauthorized(c) ==
    /\ c.pc = "fetch" /\ ~c.aborted
    /\ page' = "leaving"
    /\ Handle(c)
    /\ UNCHANGED logout

Answered(c) ==
    /\ c.pc = "fetch" /\ ~c.aborted
    /\ calls' = (calls \ {c}) \cup {[c EXCEPT !.pc = "json"]}
    /\ UNCHANGED <<page, panel, logout, storage, issued>>

\* A body that cannot be read, because of an abort too, is an envelope as well.
BodyRead(c) ==
    /\ c.pc = "json"
    /\ Handle(c)
    /\ PageAfter(c)
    /\ \/ UNCHANGED logout
       \/ c.kind = "ME" /\ logout' = TRUE

Settle(id) ==
    \E c \in calls :
        c.id = id /\ (FetchFails(c) \/ Unauthorized(c) \/ Answered(c) \/ BodyRead(c))

-----------------------------------------------------------------------------
(* The login page *)

ShowLogin ==
    /\ page = "leaving"
    /\ page' = "login"
    /\ panel' = Fresh /\ logout' = FALSE /\ calls' = {}
    /\ UNCHANGED <<storage, issued>>

\* The button is disabled until the answer comes.
SubmitLogin ==
    /\ page = "login"
    /\ page' = "entering"
    /\ UNCHANGED <<panel, logout, calls, storage, issued>>

\* Refused, or unreachable, or sent back to the login page by the page it led to.
LoginFails ==
    /\ page = "entering"
    /\ page' = "login"
    /\ UNCHANGED <<panel, logout, calls, storage, issued>>

LoginSucceeds == page = "entering" /\ LoadPage

Next ==
    \/ HttpForm \/ PortForm \/ DnsForm
    \/ LoadClientInfo \/ ClickLogout \/ ClearHistory \/ Reload
    \/ \E id \in Ids : Settle(id)
    \/ ShowLogin \/ SubmitLogin \/ LoginFails \/ LoginSucceeds

Spec == Init /\ [][Next]_vars

\* Every call is answered or fails, and a page that is replaced goes.
Fairness == (\A id \in Ids : WF_vars(Settle(id))) /\ WF_vars(ShowLogin)

FairSpec == Spec /\ Fairness

-----------------------------------------------------------------------------
(* Properties *)

\* The page has the shape the scripts give it, and the list is no longer than MAX_HISTORY.
TypeOK ==
    /\ page \in {"open", "leaving", "login", "entering"}
    /\ panel \in [Panels -> Panel]
    /\ logout \in BOOLEAN
    /\ calls \subseteq ApiCall
    /\ stored \in Seq(Ids) /\ Len(stored) <= MaxHistory
    /\ issued \in Ids /\ saved \in Seq(Ids)

\* No panel has two calls in flight, however often its button is clicked
\* (network-diagnostic-service-spec.md:340).
OneAtATime ==
    \A k \in Panels : Cardinality({c \in calls : c.kind = k}) <= 1

\* The result a panel shows is that of its last call: an earlier one that was answered late,
\* or aborted while its body was read, does not take its place.
LatestShown ==
    \A k \in Panels : panel[k].shown \in {0, Running, panel[k].latest}

\* The list holds the results saved last, newest first, whatever order the forms were
\* answered in and however often the page was loaded again.
HistoryIsRecent ==
    \A i \in 1 .. Min({MaxHistory, Len(saved)}) :
        i <= Len(stored) /\ stored[i] = saved[Len(saved) + 1 - i]

\* A panel that was started can be started again: no failure leaves its button disabled.
PanelComesBack == \A k \in Panels : panel[k].busy ~> ~panel[k].busy
=============================================================================
