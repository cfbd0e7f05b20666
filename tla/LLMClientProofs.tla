--------------------------- MODULE LLMClientProofs ---------------------------
(***************************************************************************)
(* Proofs about LLMClient, for any servers, models, requests and bounds,   *)
(* and for both clients, the plain one and the observed one.               *)
(***************************************************************************)
EXTENDS LLMClient, TLAPS

USE SettingsAssumption DEF Settings

-----------------------------------------------------------------------------
(* What the operators return. *)

LEMMA AppliedTyped ==
    ASSUME NEW file \in Settings \cup {None}
    PROVE  Applied(file) \in Settings
  BY DEF Applied

\* What is saved is what is applied.
LEMMA AppliedSaved ==
    ASSUME NEW s \in Settings
    PROVE  Applied(s) = s
  BY DEF Applied

LEMMA FreshTyped ==
    ASSUME NEW s \in Settings
    PROVE  /\ Fresh(s) \in Statuses
           /\ Fresh(s).url = s.url /\ Fresh(s).model = s.model
  BY DEF Fresh, Statuses

\* A check that begins names the settings it is given, in the status, too.
LEMMA CheckingTyped ==
    ASSUME TypeOK, NEW c \in Checkers, NEW s \in Settings, NEW before \in Statuses,
           Checking(c, s, before)
    PROVE  /\ status' \in Statuses
           /\ check' \in [Checkers -> Urls \cup {None}]
           /\ status'.url = s.url /\ status'.model = s.model
<1>1. s.enabled \in BOOLEAN /\ s.url \in Urls /\ s.model \in Models \cup {None}
  OBVIOUS
<1>2. [check EXCEPT ![c] = s.url] \in [Checkers -> Urls \cup {None}]
  BY <1>1 DEF TypeOK
<1>3. CASE s.enabled
  <2>1. status' = [before EXCEPT !.model = s.model, !.url = s.url]
    BY <1>3 DEF Checking
  <2>2. /\ [before EXCEPT !.model = s.model, !.url = s.url] \in Statuses
        /\ [before EXCEPT !.model = s.model, !.url = s.url].url = s.url
        /\ [before EXCEPT !.model = s.model, !.url = s.url].model = s.model
    BY <1>1 DEF Statuses
  <2>3. QED
    BY <1>2, <1>3, <2>1, <2>2 DEF Checking
<1>4. CASE ~s.enabled
  <2>1. status' = [mode |-> "fallback", available |-> FALSE, model |-> s.model, url |-> s.url]
    BY <1>4 DEF Checking
  <2>2. status' \in Statuses /\ status'.url = s.url /\ status'.model = s.model
    BY <1>1, <2>1 DEF Statuses
  <2>3. QED
    BY <1>4, <2>2 DEF Checking, TypeOK
<1>5. QED
  BY <1>3, <1>4

\* A check keeps the model or takes a loaded one.
LEMMA AdoptedTyped ==
    ASSUME TypeOK, NEW u \in Urls, NEW model \in Adopted(u)
    PROVE  model \in Models \cup {None}
<1>1. Loaded(u) \subseteq Models
  BY DEF Loaded, TypeOK
<1>2. settings.model \in Models \cup {None}
  BY DEF TypeOK
<1>3. QED
  BY <1>1, <1>2 DEF Adopted

LEMMA JudgedTyped ==
    ASSUME TypeOK, NEW model \in Models \cup {None}, NEW selectable \in SUBSET Models
    PROVE  /\ Judged(model, selectable) \in Statuses
           /\ Judged(model, selectable).url = status.url
           /\ Judged(model, selectable).model = model
<1>1. status \in Statuses
  BY DEF TypeOK
<1>2. (model \in selectable) \in BOOLEAN /\ (selectable # {}) \in BOOLEAN
  OBVIOUS
<1>3. QED
  BY <1>1, <1>2 DEF Judged, Statuses

-----------------------------------------------------------------------------
(* Type correctness. *)

LEMMA InitTyped == Init => TypeOK
<1> SUFFICES ASSUME Init PROVE TypeOK
  OBVIOUS
<1>1. stored \in Settings \cup {None} /\ settings \in Settings /\ status \in Statuses
  <2>1. stored \in Settings \cup {None} /\ settings = Applied(stored) /\ status = Fresh(settings)
    BY DEF Init
  <2>2. settings \in Settings
    BY <2>1, AppliedTyped
  <2>3. QED
    BY <2>1, <2>2, FreshTyped
<1>2. req \in [Requests -> Payloads \cup {None}]
  BY DEF Init
<1>3. check \in [Checkers -> Urls \cup {None}]
  <2>1. settings.url \in Urls
    BY <1>1
  <2>2. QED
    BY <2>1 DEF Init
<1>4. serving \in [Urls -> SUBSET Models] /\ unsaved \in BOOLEAN
  BY DEF Init
<1>5. changes \in 0..MaxChanges
  BY DEF Init
<1>6. QED
  BY <1>1, <1>2, <1>3, <1>4, <1>5 DEF TypeOK

\* The changes of the operator and of the servers.
LEMMA ChangesTyped ==
    ASSUME TypeOK,
           \/ \E s \in Settings : ConfigureUnsaved(s) \/ \E c \in Pages : Configure(c, s)
           \/ Restart
           \/ \E u \in Urls, models \in SUBSET Models : Load(u, models)
    PROVE  TypeOK'
<1>1. ASSUME NEW s \in Settings, ConfigureUnsaved(s)
      PROVE  TypeOK'
  <2>1. status' \in Statuses /\ changes' \in 0..MaxChanges
    BY <1>1 DEF ConfigureUnsaved, Statuses, TypeOK
  <2>2. QED
    BY <1>1, <2>1 DEF ConfigureUnsaved, TypeOK
<1>2. ASSUME NEW s \in Settings, NEW c \in Pages, Configure(c, s)
      PROVE  TypeOK'
  <2>1. [mode |-> "configured", available |-> FALSE, model |-> s.model, url |-> s.url] \in Statuses
    BY DEF Statuses
  <2>2. status' \in Statuses /\ check' \in [Checkers -> Urls \cup {None}]
    BY <1>2, <2>1, CheckingTyped DEF Configure, Checkers
  <2>3. changes' \in 0..MaxChanges
    BY <1>2 DEF Configure, TypeOK
  <2>4. QED
    BY <1>2, <2>2, <2>3 DEF Configure, TypeOK
<1>3. CASE Restart
  <2>1. settings' \in Settings
    BY <1>3, AppliedTyped DEF Restart, TypeOK
  <2>2. status' \in Statuses
    BY <1>3, <2>1, FreshTyped DEF Restart
  <2>3. /\ settings'.url \in Urls
        /\ req' \in [Requests -> Payloads \cup {None}]
        /\ changes' \in 0..MaxChanges
    BY <1>3, <2>1 DEF Restart, TypeOK
  <2>4. check' \in [Checkers -> Urls \cup {None}]
    BY <1>3, <2>3 DEF Restart
  <2>5. QED
    BY <1>3, <2>1, <2>2, <2>3, <2>4 DEF Restart, TypeOK
<1>4. ASSUME NEW u \in Urls, NEW models \in SUBSET Models, Load(u, models)
      PROVE  TypeOK'
  BY <1>4 DEF Load, TypeOK
<1>5. QED
  BY <1>1, <1>2, <1>3, <1>4

LEMMA CheckTyped ==
    ASSUME TypeOK, NEW c \in Checkers, Check(c)
    PROVE  TypeOK'
<1>1. check[c] # None => check[c] \in Urls /\ serving[check[c]] \in SUBSET Models
  BY DEF TypeOK
<1>2. [check EXCEPT ![c] = None] \in [Checkers -> Urls \cup {None}]
  BY DEF TypeOK
<1>3. [status EXCEPT !.mode = "fallback", !.available = FALSE] \in Statuses
  BY DEF TypeOK, Statuses
<1>4. \A model \in Models \cup {None} : [settings EXCEPT !.model = model] \in Settings
  BY DEF TypeOK
<1>5. CASE Catalog(c)
  <2>1. PICK model \in Adopted(check[c]) :
            /\ settings' = [settings EXCEPT !.model = model]
            /\ status' = Judged(model, serving[check[c]])
            /\ IF model # settings.model
               THEN stored' = settings' /\ unsaved' = FALSE
               ELSE UNCHANGED <<stored, unsaved>>
    BY <1>5 DEF Catalog
  <2>2. model \in Models \cup {None}
    BY <1>1, <1>5, AdoptedTyped DEF Catalog
  <2>3. status' \in Statuses /\ settings' \in Settings
    BY <1>1, <1>4, <1>5, <2>1, <2>2, JudgedTyped DEF Catalog
  <2>4. stored' \in Settings \cup {None} /\ unsaved' \in BOOLEAN
    BY <2>1, <2>3 DEF TypeOK
  <2>5. QED
    BY <1>2, <1>5, <2>3, <2>4 DEF Catalog, TypeOK
<1>6. CASE Unreachable(c)
  BY <1>2, <1>3, <1>6 DEF Unreachable, TypeOK
<1>7. CASE AdoptedUnsaved(c)
  <2>1. PICK model \in Adopted(check[c]) :
            /\ settings' = [settings EXCEPT !.model = model]
            /\ status' = [status EXCEPT !.mode = "fallback", !.available = FALSE]
    BY <1>7 DEF AdoptedUnsaved
  <2>2. settings' \in Settings
    BY <1>1, <1>4, <1>7, <2>1, AdoptedTyped DEF AdoptedUnsaved
  <2>3. QED
    BY <1>2, <1>3, <1>7, <2>1, <2>2 DEF AdoptedUnsaved, TypeOK
<1>8. QED
  BY <1>5, <1>6, <1>7 DEF Check

LEMMA RequestTyped ==
    ASSUME TypeOK, NEW r \in Requests, Begin(r) \/ Attempt(r)
    PROVE  TypeOK'
<1>1. req[r] # None => req[r] \in Payloads
  BY DEF TypeOK
<1>2. [req EXCEPT ![r] = None] \in [Requests -> Payloads \cup {None}]
  BY DEF TypeOK
<1>3. CASE Begin(r)
  <2>1. [model |-> settings.model, url |-> settings.url, attempt |-> 1] \in Payloads
    BY <1>3 DEF Begin, Payloads, TypeOK
  <2>2. QED
    BY <1>3, <2>1 DEF Begin, TypeOK
<1>4. CASE Answer(r)
  <2>1. status' \in Statuses
    BY <1>4 DEF Answer, Statuses, TypeOK
  <2>2. QED
    BY <1>2, <1>4, <2>1 DEF Answer, TypeOK
<1>5. CASE Retry(r)
  <2>1. req[r] \in Payloads /\ settings.url \in Urls
    BY <1>1, <1>5 DEF Retry, TypeOK
  <2>2. [req[r] EXCEPT !.url = settings.url, !.attempt = 2] \in Payloads
    <3> DEFINE moved == [req[r] EXCEPT !.url = settings.url]
    <3>1. moved \in Payloads
      BY <2>1 DEF Payloads
    <3> HIDE DEF moved
    <3>2. [moved EXCEPT !.attempt = 2] \in Payloads
      BY <3>1 DEF Payloads
    <3>3. QED
      BY <3>2 DEF moved
  <2>3. req' = [req EXCEPT ![r] = [req[r] EXCEPT !.url = settings.url, !.attempt = 2]]
    BY <1>5 DEF Retry, TypeOK
  <2>4. req' \in [Requests -> Payloads \cup {None}]
    BY <2>2, <2>3 DEF TypeOK
  <2>5. QED
    BY <1>5, <2>4 DEF Retry, TypeOK
<1>6. CASE FallBack(r)
  <2>1. status' \in Statuses
    BY <1>6 DEF FallBack, Unanswered, Statuses, TypeOK
  <2>2. QED
    BY <1>2, <1>6, <2>1 DEF FallBack, TypeOK
<1>7. QED
  BY <1>3, <1>4, <1>5, <1>6 DEF Attempt

LEMMA StepTyped == TypeOK /\ [Next]_vars => TypeOK'
<1> SUFFICES ASSUME TypeOK, [Next]_vars PROVE TypeOK'
  OBVIOUS
<1>1. CASE UNCHANGED vars
  BY <1>1 DEF vars, TypeOK
<1>2. CASE Next
  BY <1>2, ChangesTyped, CheckTyped, RequestTyped DEF Next
<1>3. QED
  BY <1>1, <1>2

\* For any servers, models and requests, of either client: every variable keeps its type,
\* and no request is attempted a third time (_request).
THEOREM TypeCorrect == Spec => []TypeOK
  BY InitTyped, StepTyped, PTL DEF Spec

-----------------------------------------------------------------------------
(* The settings, their file and the status. *)

Consistent == TypeOK /\ RestartKeepsSettings /\ StatusNamesSettings

LEMMA InitConsistent == Init => Consistent
<1> SUFFICES ASSUME Init PROVE Consistent
  OBVIOUS
<1>1. TypeOK
  BY InitTyped
<1>2. status.url = settings.url /\ status.model = settings.model
  BY <1>1, FreshTyped DEF Init, TypeOK
<1>3. QED
  BY <1>1, <1>2 DEF Consistent, RestartKeepsSettings, StatusNamesSettings, Init

LEMMA CheckConsistent ==
    ASSUME Consistent, NEW c \in Checkers, Check(c)
    PROVE  RestartKeepsSettings' /\ StatusNamesSettings'
<1> USE DEF Consistent
<1>1. check[c] # None => check[c] \in Urls /\ serving[check[c]] \in SUBSET Models
  BY DEF TypeOK
<1>2. CASE Catalog(c)
  <2>1. PICK model \in Adopted(check[c]) :
            /\ settings' = [settings EXCEPT !.model = model]
            /\ status' = Judged(model, serving[check[c]])
            /\ IF model # settings.model
               THEN stored' = settings' /\ unsaved' = FALSE
               ELSE UNCHANGED <<stored, unsaved>>
    BY <1>2 DEF Catalog
  <2>2. model \in Models \cup {None}
    BY <1>1, <1>2, AdoptedTyped DEF Catalog
  <2>3. settings' \in Settings /\ settings'.url = settings.url /\ settings'.model = model
    BY <2>1, <2>2 DEF TypeOK
  <2>4. status'.url = status.url /\ status'.model = model
    BY <1>1, <1>2, <2>1, <2>2, JudgedTyped DEF Catalog
  <2>5. StatusNamesSettings'
    BY <2>3, <2>4 DEF StatusNamesSettings
  <2>6. CASE model # settings.model
    BY <2>1, <2>3, <2>5, <2>6, AppliedSaved DEF RestartKeepsSettings
  <2>7. CASE model = settings.model
    <3>1. settings' = settings
      BY <2>1, <2>7 DEF TypeOK
    <3>2. QED
      BY <2>1, <2>5, <2>7, <3>1 DEF RestartKeepsSettings, Applied
  <2>8. QED
    BY <2>6, <2>7
<1>3. CASE Unreachable(c)
  BY <1>3 DEF Unreachable, RestartKeepsSettings, StatusNamesSettings, Applied, TypeOK, Statuses
<1>4. CASE AdoptedUnsaved(c)
  BY <1>4 DEF AdoptedUnsaved, RestartKeepsSettings, StatusNamesSettings, TypeOK, Statuses
<1>5. QED
  BY <1>2, <1>3, <1>4 DEF Check

LEMMA RequestConsistent ==
    ASSUME Consistent, NEW r \in Requests, Begin(r) \/ Attempt(r)
    PROVE  RestartKeepsSettings' /\ StatusNamesSettings'
<1> USE DEF Consistent, RestartKeepsSettings, StatusNamesSettings, Applied
<1>1. CASE Begin(r)
  BY <1>1 DEF Begin
<1>2. CASE Answer(r)
  BY <1>2 DEF Answer
<1>3. CASE Retry(r)
  BY <1>3 DEF Retry
<1>4. CASE FallBack(r)
  BY <1>4 DEF FallBack, Unanswered, TypeOK, Statuses
<1>5. QED
  BY <1>1, <1>2, <1>3, <1>4 DEF Attempt

LEMMA StepConsistent == Consistent /\ [Next]_vars => Consistent'
<1> SUFFICES ASSUME Consistent, [Next]_vars PROVE RestartKeepsSettings' /\ StatusNamesSettings'
  BY StepTyped DEF Consistent
<1>1. CASE UNCHANGED vars
  BY <1>1 DEF vars, Consistent, RestartKeepsSettings, StatusNamesSettings, Applied
<1>2. ASSUME NEW s \in Settings, ConfigureUnsaved(s)
      PROVE  RestartKeepsSettings' /\ StatusNamesSettings'
  BY <1>2 DEF ConfigureUnsaved, RestartKeepsSettings, StatusNamesSettings
<1>3. ASSUME NEW s \in Settings, NEW c \in Pages, Configure(c, s)
      PROVE  RestartKeepsSettings' /\ StatusNamesSettings'
  <2>1. [mode |-> "configured", available |-> FALSE, model |-> s.model, url |-> s.url] \in Statuses
    BY DEF Statuses
  <2>2. status'.url = s.url /\ status'.model = s.model
    BY <1>3, <2>1, CheckingTyped DEF Configure, Checkers, Consistent
  <2>3. QED
    BY <1>3, <2>2, AppliedSaved DEF Configure, RestartKeepsSettings, StatusNamesSettings
<1>4. CASE Restart
  <2>1. settings' = Applied(stored') /\ settings' \in Settings
    BY <1>4, AppliedTyped DEF Restart, Consistent, TypeOK, Applied
  <2>2. status' = Fresh(settings')
    BY <1>4 DEF Restart
  <2>3. QED
    BY <2>1, <2>2, FreshTyped DEF RestartKeepsSettings, StatusNamesSettings
<1>5. ASSUME NEW u \in Urls, NEW models \in SUBSET Models, Load(u, models)
      PROVE  RestartKeepsSettings' /\ StatusNamesSettings'
  BY <1>5 DEF Load, Consistent, RestartKeepsSettings, StatusNamesSettings, Applied
<1>6. QED
  BY <1>1, <1>2, <1>3, <1>4, <1>5, CheckConsistent, RequestConsistent DEF Next

LEMMA AlwaysConsistent == Spec => []Consistent
  BY InitConsistent, StepConsistent, PTL DEF Spec

\* A restart never changes what the client uses, whatever checks, requests and changes of
\* the settings overlap, unless the file could not be written (LLMSettingsStore).
THEOREM RestartIsNoChange == Spec => []RestartKeepsSettings
<1>1. Consistent => RestartKeepsSettings
  BY DEF Consistent
<1>2. QED
  BY <1>1, AlwaysConsistent, PTL

\* What the operator reads always names the model and the server in use, whichever
\* answers arrive late, for either client (_status of both).
THEOREM StatusIsOfNow == Spec => []StatusNamesSettings
<1>1. Consistent => StatusNamesSettings
  BY DEF Consistent
<1>2. QED
  BY <1>1, AlwaysConsistent, PTL
=============================================================================
