----------------------------- MODULE LLMClient ------------------------------
(***************************************************************************)
(* The client of the local model: the settings and their file, the status  *)
(* that the page shows, requests with one retry, and the checks that read  *)
(* a server's catalog.  Everything runs on one event loop: an action goes  *)
(* from one await to the next, and requests, checks and changes of the     *)
(* settings interleave at the awaits.  Each of them reads the settings     *)
(* again when its answer arrives.                                          *)
(*                                                                         *)
(* What a model answers, latencies, tokens and texts of errors are left    *)
(* out; a disabled client answers by the fallback at once, which changes   *)
(* nothing here.                                                           *)
(***************************************************************************)
EXTENDS Naturals, FiniteSets

CONSTANTS
    Urls, Models,
    Native,         \* the servers that tell which models are loaded
    Requests,       \* decide and consolidate, as many as run at once
    StartUp, Pages, \* what checks the status: engine.start, and configure
    Observed,       \* the engine's own client, a subclass that knows the server from the model
    Environment,    \* the settings where there is no llm-settings.json
    MaxChanges,     \* bound on what the operator and the servers do
    None

Checkers == {StartUp} \cup Pages
Settings == [enabled : BOOLEAN, url : Urls, model : Models \cup {None}]

ASSUME SettingsAssumption ==
    /\ Native \subseteq Urls
    /\ Observed \in BOOLEAN
    /\ Environment \in Settings
    /\ MaxChanges \in Nat
    /\ None \notin Settings \cup Urls

VARIABLES
    settings,   \* Settings, shared by all
    stored,     \* llm-settings.json
    status,
    req,        \* what each request holds while it waits
    check,      \* the server each check waits for
    serving,    \* the models each server has loaded
    unsaved,    \* the last save failed
    changes

vars == <<settings, stored, status, req, check, serving, unsaved, changes>>

Statuses ==
    [mode : {"configured", "fallback", "llm"}, available : BOOLEAN,
     model : Models \cup {None}, url : Urls]

Payloads == [model : Models, url : Urls, attempt : 1..2]

-----------------------------------------------------------------------------
\* LLMSettingsStore.apply
Applied(file) == IF file = None THEN Environment ELSE file

\* The status of a new client.
Fresh(s) ==
    [mode |-> IF ~s.enabled \/ s.model = None THEN "fallback" ELSE "configured",
     available |-> FALSE, model |-> s.model, url |-> s.url]

\* check_status up to its await.
Checking(c, s, before) ==
    IF s.enabled
    THEN /\ status' = [before EXCEPT !.model = s.model, !.url = s.url]
         /\ check' = [check EXCEPT ![c] = s.url]
    ELSE /\ status' = [mode |-> "fallback", available |-> FALSE, model |-> s.model, url |-> s.url]
         /\ UNCHANGED check

Init ==
    /\ stored \in Settings \cup {None}
    /\ settings = Applied(stored)
    /\ status = Fresh(settings)
    /\ req = [r \in Requests |-> None]
    /\ check = [c \in Checkers |-> IF c = StartUp /\ settings.enabled THEN settings.url ELSE None]
    /\ serving \in [Urls -> SUBSET Models]
    /\ unsaved = FALSE
    /\ changes = 0

Started == check[StartUp] = None

-----------------------------------------------------------------------------
(* Settings. *)

\* configure: the settings, a new status, the file, and a check.
Configure(c, s) ==
    /\ Started /\ check[c] = None
    /\ changes < MaxChanges
    /\ settings' = s
    /\ stored' = s
    /\ Checking(c, s, [mode |-> "configured", available |-> FALSE, model |-> s.model, url |-> s.url])
    /\ unsaved' = FALSE
    /\ changes' = changes + 1
    /\ UNCHANGED <<req, serving>>

\* The file cannot be written: the request fails after the settings have changed.
ConfigureUnsaved(s) ==
    /\ Started
    /\ changes < MaxChanges
    /\ settings' = s
    /\ status' = [mode |-> IF s.enabled THEN "configured" ELSE "fallback", available |-> FALSE,
                  model |-> s.model, url |-> s.url]
    /\ unsaved' = TRUE
    /\ changes' = changes + 1
    /\ UNCHANGED <<stored, req, check, serving>>

\* A new process reads the file; engine.start checks before anything else runs.
Restart ==
    /\ changes < MaxChanges
    /\ settings' = Applied(stored)
    /\ status' = Fresh(settings')
    /\ check' = [c \in Checkers |->
                    IF c = StartUp /\ settings'.enabled THEN settings'.url ELSE None]
    /\ req' = [r \in Requests |-> None]
    /\ unsaved' = FALSE
    /\ changes' = changes + 1
    /\ UNCHANGED <<stored, serving>>

-----------------------------------------------------------------------------
(* Checks. *)

\* What the catalog says is loaded: nothing, unless the server tells.
Loaded(u) == IF u \in Native THEN serving[u] ELSE {}

\* The only loaded model takes the place of one that is not loaded.
Adopted(u) ==
    IF Cardinality(Loaded(u)) = 1 /\ settings.model \notin Loaded(u) THEN Loaded(u)
    ELSE {settings.model}

Judged(model, selectable) ==
    [status EXCEPT
        !.mode = IF model = None THEN "configured"
                 ELSE IF model \in selectable THEN "llm" ELSE "fallback",
        !.available = IF model = None THEN selectable # {} ELSE model \in selectable,
        !.model = model]

\* Mutant: the adopted model is not saved.
Catalog_Unsaved(c) ==
    /\ check[c] # None
    /\ \E model \in Adopted(check[c]) :
        /\ settings' = [settings EXCEPT !.model = model]
        /\ status' = Judged(model, serving[check[c]])
    /\ check' = [check EXCEPT ![c] = None]
    /\ UNCHANGED <<stored, unsaved, req, serving, changes>>

\* check_status after its await: the catalog is of the server that was asked, the
\* settings are those of now.
Catalog(c) ==
    /\ check[c] # None
    /\ \E model \in Adopted(check[c]) :
        /\ settings' = [settings EXCEPT !.model = model]
        /\ status' = Judged(model, serving[check[c]])
        /\ IF model # settings.model
           THEN stored' = settings' /\ unsaved' = FALSE
           ELSE UNCHANGED <<stored, unsaved>>
    /\ check' = [check EXCEPT ![c] = None]
    /\ UNCHANGED <<req, serving, changes>>

Unreachable(c) ==
    /\ check[c] # None
    /\ status' = [status EXCEPT !.mode = "fallback", !.available = FALSE]
    /\ check' = [check EXCEPT ![c] = None]
    /\ UNCHANGED <<settings, stored, req, serving, unsaved, changes>>

\* The adopted model cannot be saved: that is an error of the check, too.
AdoptedUnsaved(c) ==
    /\ check[c] # None
    /\ settings.model \notin Adopted(check[c])
    /\ \E model \in Adopted(check[c]) :
        /\ settings' = [settings EXCEPT !.model = model]
        /\ status' = [status EXCEPT !.mode = "fallback", !.available = FALSE]
    /\ check' = [check EXCEPT ![c] = None]
    /\ unsaved' = TRUE
    /\ UNCHANGED <<stored, req, serving, changes>>

-----------------------------------------------------------------------------
(* Requests. *)

\* Mutant: a server that is not available is not asked.
Begin_WhenAvailable(r) ==
    /\ Started /\ req[r] = None
    /\ settings.enabled /\ settings.model # None /\ status.available
    /\ req' = [req EXCEPT ![r] = [model |-> settings.model, url |-> settings.url, attempt |-> 1]]
    /\ UNCHANGED <<settings, stored, status, check, serving, unsaved, changes>>

\* decide, consolidate and _request up to its await.  The payload keeps its model.
Begin(r) ==
    /\ Started /\ req[r] = None
    /\ settings.enabled /\ settings.model # None
    /\ req' = [req EXCEPT ![r] = [model |-> settings.model, url |-> settings.url, attempt |-> 1]]
    /\ UNCHANGED <<settings, stored, status, check, serving, unsaved, changes>>

\* What passes for an answer: not an error of the server, some text, a JSON object in it.
\* Only a server that has the model gives one.
MayAnswer(r) == req[r].model \in serving[req[r].url]

\* A valid answer says that the server of now and its model are well.
Answer(r) ==
    /\ req[r] # None
    /\ MayAnswer(r)
    /\ status' = [mode |-> "llm", available |-> TRUE, model |-> settings.model, url |-> settings.url]
    /\ req' = [req EXCEPT ![r] = None]
    /\ UNCHANGED <<settings, stored, check, serving, unsaved, changes>>

\* Mutant: nobody counts the attempts.
Retry_Endless(r) ==
    /\ req[r] # None
    /\ req' = [req EXCEPT ![r].url = settings.url, ![r].attempt = @ + 1]
    /\ UNCHANGED <<settings, stored, status, check, serving, unsaved, changes>>

\* A timeout, an error of the server, or an answer that is not valid: the same payload
\* goes to the server of now.
Retry(r) ==
    /\ req[r] # None /\ req[r].attempt = 1
    /\ req' = [req EXCEPT ![r].url = settings.url, ![r].attempt = 2]
    /\ UNCHANGED <<settings, stored, status, check, serving, unsaved, changes>>

\* LocalLLMClient takes a server that does not answer for one that is not there.
Unanswered == [status EXCEPT !.mode = "fallback", !.available = FALSE]

\* After the second attempt, or at once for an error that is not retried; the observed
\* client keeps what it knew of the server.
FallBack(r) ==
    /\ req[r] # None
    /\ status' = IF Observed THEN [status EXCEPT !.mode = "fallback"] ELSE Unanswered
    /\ req' = [req EXCEPT ![r] = None]
    /\ UNCHANGED <<settings, stored, check, serving, unsaved, changes>>

\* A model is loaded or unloaded, a server stopped or started.
Load(u, models) ==
    /\ changes < MaxChanges
    /\ serving' = [serving EXCEPT ![u] = models]
    /\ changes' = changes + 1
    /\ UNCHANGED <<settings, stored, status, req, check, unsaved>>

-----------------------------------------------------------------------------
Attempt(r) == Answer(r) \/ Retry(r) \/ FallBack(r)
Check(c) == Catalog(c) \/ Unreachable(c) \/ AdoptedUnsaved(c)

Next ==
    \/ \E s \in Settings : ConfigureUnsaved(s) \/ \E c \in Pages : Configure(c, s)
    \/ Restart
    \/ \E c \in Checkers : Check(c)
    \/ \E r \in Requests : Begin(r) \/ Attempt(r)
    \/ \E u \in Urls, models \in SUBSET Models : Load(u, models)

Spec == Init /\ [][Next]_vars

\* Every wait has a timeout; the engine keeps asking; a server that keeps being asked
\* for a model it has loaded gives a valid answer now and then.
FairSpec ==
    /\ Spec
    /\ \A c \in Checkers : WF_vars(Check(c))
    /\ \A r \in Requests : WF_vars(Begin(r)) /\ WF_vars(Attempt(r)) /\ SF_vars(Answer(r))

-----------------------------------------------------------------------------
(* Properties. *)

\* Every variable has its type; a request holds a model and is at its first or
\* second attempt.
TypeOK ==
    /\ settings \in Settings
    /\ stored \in Settings \cup {None}
    /\ status \in Statuses
    /\ req \in [Requests -> Payloads \cup {None}]
    /\ check \in [Checkers -> Urls \cup {None}]
    /\ serving \in [Urls -> SUBSET Models]
    /\ unsaved \in BOOLEAN
    /\ changes \in 0..MaxChanges

\* What the operator reads names the model and the server that the next request will use,
\* whichever answers arrive late, unless the file could not be written (status.update in
\* _request, check_status and configure).
StatusNamesSettings ==
    status.url = settings.url /\ (unsaved \/ status.model = settings.model)

\* A restart uses the settings of now, also a model that a check has adopted in the place
\* of the chosen one, unless the file could not be written (LLMSettingsStore).
RestartKeepsSettings == unsaved \/ settings = Applied(stored)

\* Falling back is no trap: while the configured model can answer, the client comes back
\* to it, whatever failed or was configured before (decide tries again every time).
Recovers ==
    <>[](settings.enabled /\ settings.model \in serving[settings.url])
        => []<>(status.mode = "llm")
=============================================================================
