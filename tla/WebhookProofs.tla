--------------------------- MODULE WebhookProofs ---------------------------
(***************************************************************************)
(* The properties of Webhook for any number of requests.  Each part of     *)
(* WebhookInv has a lemma: it is kept by every step from a state where the *)
(* parts before it hold.  Steps that leave its variables alone are taken   *)
(* together.                                                               *)
(***************************************************************************)
EXTENDS Webhook, TLAPS

USE WebhookAssumption
USE DEF SetAt, SetEnds, DelAt, SetIdle, DelIdle, PollIdle, Call, db, client, webhook, polls

\* abortLongPollLocked tells polls only.
LEMMA AbortTyped ==
  ASSUME TypeOK, AbortLongPoll
  PROVE  conflict' \subseteq Pollers /\ aborted' \subseteq conflict'
BY DEF TypeOK, AbortLongPoll

\* Types.
LEMMA TypeStep ==
  ASSUME TypeOK, Configured, Next
  PROVE  TypeOK'
<1>1. ASSUME NEW s \in Setters, SetArgs(s)
     PROVE  TypeOK'
  <2>1. set' \in [Setters -> SetStates] /\ \A x \in Setters : set'[x].run <= cur'
    BY <1>1 DEF SetArgs, TypeOK, SetStates, FilterFor, Configs
  <2> QED
    BY <1>1, <2>1 DEF SetArgs, TypeOK, Configured, FilterFor, Configs
<1>2. ASSUME NEW s \in Setters, SetRefused(s)
     PROVE  TypeOK'
  <2>1. set' \in [Setters -> SetStates] /\ \A x \in Setters : set'[x].run <= cur'
    BY <1>2 DEF SetRefused, TypeOK, SetStates
  <2> QED
    BY <1>2, <2>1 DEF SetRefused, TypeOK, Configured
<1>3. ASSUME NEW s \in Setters, SetEnters(s)
     PROVE  TypeOK'
  <2>1. set' \in [Setters -> SetStates] /\ \A x \in Setters : set'[x].run <= cur'
    BY <1>3 DEF SetEnters, TypeOK, SetStates
  <2> QED
    BY <1>3, <2>1 DEF SetEnters, TypeOK, Configured
<1>4. ASSUME NEW s \in Setters, SetLeaves(s)
     PROVE  TypeOK'
  <2>1. set' \in [Setters -> SetStates] /\ \A x \in Setters : set'[x].run <= cur'
    BY <1>4 DEF SetLeaves, TypeOK, SetStates
  <2> QED
    BY <1>4, <2>1 DEF SetLeaves, TypeOK, Configured
<1>5. ASSUME NEW s \in Setters, SetSame(s)
     PROVE  TypeOK'
  <2>1. set' \in [Setters -> SetStates] /\ \A x \in Setters : set'[x].run <= cur'
    BY <1>5 DEF SetSame, TypeOK, SetStates
  <2> QED
    BY <1>5, <2>1 DEF SetSame, TypeOK, Configured
<1>6. ASSUME NEW s \in Setters, SetAborts(s)
     PROVE  TypeOK'
  <2>1. set' \in [Setters -> SetStates] /\ \A x \in Setters : set'[x].run <= cur'
    BY <1>6 DEF SetAborts, TypeOK, SetStates
  <2>2. conflict' \subseteq Pollers /\ aborted' \subseteq conflict'
    BY <1>6, AbortTyped DEF SetAborts
  <2>3. aborts' \in Nat /\ \A p \in Pollers : poll'[p].since <= aborts'
    BY <1>6 DEF SetAborts, TypeOK, PollStates
  <2> QED
    BY <1>6, <2>1, <2>2, <2>3 DEF SetAborts, TypeOK
<1>7. ASSUME NEW s \in Setters, SetStores(s)
     PROVE  TypeOK'
  <2>1. set' \in [Setters -> SetStates] /\ \A x \in Setters : set'[x].run <= cur'
    BY <1>7 DEF SetStores, TypeOK, SetStates
  <2> QED
    BY <1>7, <2>1 DEF SetStores, TypeOK, Configured
<1>8. ASSUME NEW s \in Setters, SetVerifies(s) \/ SetUndoes(s)
     PROVE  TypeOK'
  <2>1. set' \in [Setters -> SetStates] /\ \A x \in Setters : set'[x].run <= cur'
    BY <1>8 DEF SetVerifies, SetUndoes, TypeOK, SetStates
  <2> QED
    BY <1>8, <2>1 DEF SetVerifies, SetUndoes, TypeOK, Configured
<1>9. ASSUME NEW s \in Setters, StartCancels(s)
     PROVE  TypeOK'
  <2>0. set[s] \in SetStates /\ cur \in Nat
    BY DEF TypeOK
  <2>1. [set[s] EXCEPT !.pc = "wait", !.run = cur] \in SetStates
    BY <2>0 DEF SetStates
  <2>2. set' = [set EXCEPT ![s] = [set[s] EXCEPT !.pc = "wait", !.run = cur]]
    BY <1>9 DEF StartCancels
  <2>3. set' \in [Setters -> SetStates] /\ \A x \in Setters : set'[x].run <= cur
    BY <2>1, <2>2 DEF TypeOK, SetStates
  <2> QED
    BY <1>9, <2>3 DEF StartCancels, TypeOK, Configured
<1>10. ASSUME NEW s \in Setters, StartLaunches(s)
     PROVE  TypeOK'
  <2>1. /\ set' \in [Setters -> SetStates]
        /\ \A x \in Setters : set'[x].run = set[x].run /\ set[x].run \in Nat
    BY <1>10 DEF StartLaunches, TypeOK, SetStates
  <2>2. /\ cur' \in Nat /\ on' \subseteq 1..cur' /\ cancelled' \subseteq 1..cur'
        /\ config' \in Configs \cup {None} /\ active' \in BOOLEAN
    BY <1>10 DEF StartLaunches, TypeOK, SetStates
  <2>3. \A d \in Deleters : del'[d].run <= cur'
    BY <1>10 DEF StartLaunches, TypeOK, DelStates
  <2>4. \A x \in Setters : set'[x].run <= cur'
    BY <1>10, <2>1 DEF StartLaunches, TypeOK
  <2> QED
    BY <1>10, <2>1, <2>2, <2>3, <2>4 DEF StartLaunches, TypeOK
<1>11. ASSUME NEW d \in Deleters, DelReads(d) \/ DelErases(d)
     PROVE  TypeOK'
  <2>1. del' \in [Deleters -> DelStates] /\ \A x \in Deleters : del'[x].run <= cur'
    BY <1>11 DEF DelReads, DelErases, TypeOK, DelStates
  <2> QED
    BY <1>11, <2>1 DEF DelReads, DelErases, TypeOK, Configured
<1>12. ASSUME NEW d \in Deleters, DelLocks(d)
     PROVE  TypeOK'
  <2>1. del' \in [Deleters -> DelStates] /\ \A x \in Deleters : del'[x].run <= cur'
    BY <1>12 DEF DelLocks, TypeOK, DelStates
  <2> QED
    BY <1>12, <2>1 DEF DelLocks, TypeOK, Configured
<1>13. ASSUME NEW d \in Deleters, DelHalts(d)
     PROVE  TypeOK'
  <2>1. del' \in [Deleters -> DelStates] /\ \A x \in Deleters : del'[x].run <= cur'
    BY <1>13 DEF DelHalts, TypeOK, DelStates
  <2> QED
    BY <1>13, <2>1 DEF DelHalts, TypeOK, Configured
<1>14. ASSUME NEW r \in Runs, RunEnds(r)
     PROVE  TypeOK'
  BY <1>14 DEF RunEnds, TypeOK
<1>15. ASSUME NEW r \in Runs, RunErases(r)
     PROVE  TypeOK'
  BY <1>15 DEF RunErases, TypeOK
<1>21. ASSUME NEW r \in Runs, RunRests(r)
     PROVE  TypeOK'
  BY <1>21 DEF RunRests, TypeOK
<1>16. ASSUME NEW p \in Pollers, PollArrives(p)
     PROVE  TypeOK'
  <2>1. poll' \in [Pollers -> PollStates] /\ \A x \in Pollers : poll'[x].since <= aborts'
    BY <1>16 DEF PollArrives, TypeOK, PollStates, SeesBusy
  <2> QED
    BY <1>16, <2>1 DEF PollArrives, TypeOK, Configured, SeesBusy
<1>17. ASSUME NEW p \in Pollers, PollChecksActive(p)
     PROVE  TypeOK'
  <2>1. poll' \in [Pollers -> PollStates] /\ \A x \in Pollers : poll'[x].since <= aborts'
    BY <1>17 DEF PollChecksActive, TypeOK, PollStates
  <2> QED
    BY <1>17, <2>1 DEF PollChecksActive, TypeOK, Configured
<1>18. ASSUME NEW p \in Pollers, PollChecksRow(p)
     PROVE  TypeOK'
  <2>1. poll' \in [Pollers -> PollStates] /\ \A x \in Pollers : poll'[x].since <= aborts'
    BY <1>18 DEF PollChecksRow, TypeOK, PollStates
  <2> QED
    BY <1>18, <2>1 DEF PollChecksRow, TypeOK, Configured
<1>19. ASSUME NEW p \in Pollers, PollJoins(p)
     PROVE  TypeOK'
  <2>1. PICK long \in BOOLEAN : poll' = [poll EXCEPT ![p].pc = "get", ![p].long = long]
    BY <1>19 DEF PollJoins
  <2>2. poll' \in [Pollers -> PollStates] /\ \A x \in Pollers : poll'[x].since = poll[x].since
    BY <2>1 DEF TypeOK, PollStates
  <2>3. conflict' \subseteq Pollers /\ aborted' \subseteq conflict'
    BY <1>19, AbortTyped DEF PollJoins, TypeOK
  <2>4. allowed' \in Filters /\ registered' \in Pollers \cup {None}
    BY <1>19 DEF PollJoins, TypeOK
  <2> QED
    BY <1>19, <2>2, <2>3, <2>4 DEF PollJoins, TypeOK
<1>20. ASSUME NEW p \in Pollers, PollAnswers(p)
     PROVE  TypeOK'
  <2>1. poll' \in [Pollers -> PollStates] /\ \A x \in Pollers : poll'[x].since <= aborts'
    BY <1>20 DEF PollAnswers, TypeOK, PollStates, RegistrationWithout
  <2> QED
    BY <1>20, <2>1 DEF PollAnswers, TypeOK, Configured, RegistrationWithout
<1> QED
  BY <1>1, <1>2, <1>3, <1>4, <1>5, <1>6, <1>7, <1>8, <1>9, <1>10, <1>11, <1>12, <1>13,
     <1>14, <1>15, <1>16, <1>17, <1>18, <1>19, <1>20, <1>21 DEF Next, SetStep, DelStep,
     PollStep, RunGoes

\* webhookSetBusy lets one setWebhook in.
LEMMA OneSettingStep ==
  ASSUME TypeOK, OneSetting, Next
  PROVE  OneSetting'
<1>1. ASSUME NEW s \in Setters, SetArgs(s) \/ SetRefused(s)
     PROVE  OneSetting'
  BY <1>1 DEF SetArgs, SetRefused, TypeOK, OneSetting, Setting, SetStates
<1>2. ASSUME NEW s \in Setters, SetEnters(s)
     PROVE  OneSetting'
  BY <1>2 DEF SetEnters, TypeOK, OneSetting, Setting, SetStates
<1>3. ASSUME NEW s \in Setters, SetSame(s) \/ SetAborts(s) \/ SetStores(s)
                                \/ SetVerifies(s) \/ SetUndoes(s)
     PROVE  OneSetting'
  BY <1>3 DEF SetSame, SetAborts, SetStores, SetVerifies, SetUndoes, TypeOK, OneSetting,
              Setting, SetStates
<1>4. ASSUME NEW s \in Setters, StartCancels(s) \/ StartLaunches(s)
     PROVE  OneSetting'
  BY <1>4 DEF StartCancels, StartLaunches, TypeOK, OneSetting, Setting, SetStates, MayLaunch
<1>5. ASSUME NEW s \in Setters, SetLeaves(s)
     PROVE  OneSetting'
  BY <1>5 DEF SetLeaves, TypeOK, OneSetting, Setting, SetStates
<1>6. ASSUME NEW d \in Deleters, DelReads(d) \/ DelStep(d)
     PROVE  OneSetting'
  BY <1>6 DEF DelReads, DelLocks, DelHalts, DelErases, DelStep, OneSetting, Setting
<1>7. ASSUME NEW r \in Runs, RunErases(r) \/ RunGoes(r)
     PROVE  OneSetting'
  BY <1>7 DEF RunErases, RunGoes, RunEnds, RunRests, OneSetting, Setting
<1>8. ASSUME NEW p \in Pollers, PollArrives(p) \/ PollStep(p)
     PROVE  OneSetting'
  BY <1>8 DEF PollArrives, PollChecksActive, PollChecksRow, PollJoins, PollAnswers,
              PollStep, OneSetting, Setting
<1> QED
  BY <1>1, <1>2, <1>3, <1>4, <1>5, <1>6, <1>7, <1>8 DEF Next, SetStep, DelStep, PollStep

\* Configurations are read with the arguments and go to the run with Start.
LEMMA ConfiguredStep ==
  ASSUME TypeOK, Configured, Next
  PROVE  Configured'
<1>1. ASSUME NEW s \in Setters, SetArgs(s)
     PROVE  Configured'
  BY <1>1 DEF SetArgs, TypeOK, Configured, SetStates, Configs, FilterFor
<1>2. ASSUME NEW s \in Setters, SetRefused(s) \/ SetEnters(s) \/ SetLeaves(s)
     PROVE  Configured'
  BY <1>2 DEF SetRefused, SetEnters, SetLeaves, TypeOK, Configured, SetStates
<1>3. ASSUME NEW s \in Setters, SetSame(s) \/ SetAborts(s)
     PROVE  Configured'
  BY <1>3 DEF SetSame, SetAborts, TypeOK, Configured, SetStates
<1>4. ASSUME NEW s \in Setters, SetStores(s)
     PROVE  Configured'
  <2>1. active' = active /\ cur' = cur /\ config' = config
    BY <1>4 DEF SetStores
  <2>2. \A t \in Setters : set'[t].pc # "idle" => set[t].pc # "idle"
    BY <1>4 DEF SetStores, TypeOK, SetStates
  <2>3. \A t \in Setters : set'[t].cfg = set[t].cfg
    BY <1>4 DEF SetStores, TypeOK, SetStates
  <2> QED
    BY <2>1, <2>2, <2>3 DEF Configured
<1>5. ASSUME NEW s \in Setters, SetVerifies(s) \/ SetUndoes(s)
     PROVE  Configured'
  BY <1>5 DEF SetVerifies, SetUndoes, TypeOK, Configured, SetStates
<1>6. ASSUME NEW s \in Setters, StartCancels(s)
     PROVE  Configured'
  BY <1>6 DEF StartCancels, TypeOK, Configured, SetStates
<1>7. ASSUME NEW s \in Setters, StartLaunches(s)
     PROVE  Configured'
  BY <1>7 DEF StartLaunches, TypeOK, Configured, SetStates, Configs, MayLaunch
<1>8. ASSUME NEW d \in Deleters, DelReads(d) \/ DelStep(d)
     PROVE  Configured'
  BY <1>8 DEF DelReads, DelLocks, DelHalts, DelErases, DelStep, TypeOK, Configured
<1>9. ASSUME NEW r \in Runs, RunErases(r) \/ RunGoes(r)
     PROVE  Configured'
  BY <1>9 DEF RunErases, RunGoes, RunEnds, RunRests, TypeOK, Configured
<1>10. ASSUME NEW p \in Pollers, PollArrives(p) \/ PollStep(p)
     PROVE  Configured'
  BY <1>10 DEF PollArrives, PollChecksActive, PollChecksRow, PollJoins, PollAnswers,
               PollStep, TypeOK, Configured
<1> QED
  BY <1>1, <1>2, <1>3, <1>4, <1>5, <1>6, <1>7, <1>8, <1>9, <1>10 DEF Next, SetStep,
     DelStep, PollStep

-----------------------------------------------------------------------------
(* Runs.                                                                   *)

\* Only the one setWebhook, and no deleteWebhook, starts a run.
LEMMA WaitsForLastStep ==
  ASSUME TypeOK, OneSetting, WaitsForLast, Next
  PROVE  WaitsForLast'
<1>1. ASSUME NEW s \in Setters, SetArgs(s) \/ SetRefused(s) \/ SetEnters(s)
     PROVE  WaitsForLast'
  BY <1>1 DEF SetArgs, SetRefused, SetEnters, TypeOK, OneSetting, Setting, WaitsForLast,
              SetStates, DelStates
<1>2. ASSUME NEW s \in Setters, SetSame(s) \/ SetAborts(s) \/ SetStores(s)
     PROVE  WaitsForLast'
  BY <1>2 DEF SetSame, SetAborts, SetStores, TypeOK, OneSetting, Setting, WaitsForLast,
              SetStates, DelStates
<1>3. ASSUME NEW s \in Setters, SetVerifies(s) \/ SetUndoes(s) \/ SetLeaves(s)
     PROVE  WaitsForLast'
  BY <1>3 DEF SetVerifies, SetUndoes, SetLeaves, TypeOK, OneSetting, Setting, WaitsForLast,
              SetStates, DelStates
<1>4. ASSUME NEW s \in Setters, StartCancels(s)
     PROVE  WaitsForLast'
  BY <1>4 DEF StartCancels, TypeOK, OneSetting, Setting, WaitsForLast, SetStates, DelStates
<1>5. ASSUME NEW s \in Setters, StartLaunches(s)
     PROVE  WaitsForLast'
  BY <1>5 DEF StartLaunches, TypeOK, OneSetting, Setting, WaitsForLast, SetStates,
              DelStates, MayLaunch
<1>6. ASSUME NEW d \in Deleters, DelReads(d) \/ DelStep(d)
     PROVE  WaitsForLast'
  BY <1>6 DEF DelReads, DelLocks, DelHalts, DelErases, DelStep, TypeOK, OneSetting,
              Setting, WaitsForLast, SetStates, DelStates
<1>7. ASSUME NEW r \in Runs, RunErases(r) \/ RunGoes(r)
     PROVE  WaitsForLast'
  BY <1>7 DEF RunErases, RunGoes, RunEnds, RunRests, TypeOK, OneSetting, Setting,
              WaitsForLast, SetStates, DelStates
<1>8. ASSUME NEW p \in Pollers, PollArrives(p) \/ PollStep(p)
     PROVE  WaitsForLast'
  BY <1>8 DEF PollArrives, PollChecksActive, PollChecksRow, PollJoins, PollAnswers,
              PollStep, TypeOK, OneSetting, Setting, WaitsForLast, SetStates, DelStates
<1> QED
  BY <1>1, <1>2, <1>3, <1>4, <1>5, <1>6, <1>7, <1>8 DEF Next, SetStep, DelStep, PollStep

\* A run is started when none is on.
LEMMA RunsExactStep ==
  ASSUME TypeOK, WaitsForLast, RunsExact, Next
  PROVE  RunsExact'
<1>1. ASSUME NEW s \in Setters, SetArgs(s) \/ SetRefused(s) \/ SetEnters(s)
                                \/ SetSame(s) \/ SetAborts(s)
     PROVE  RunsExact'
  BY <1>1 DEF SetArgs, SetRefused, SetEnters, SetSame, SetAborts, TypeOK, WaitsForLast,
              RunsExact, SetStates, DelStates, Runs
<1>2. ASSUME NEW s \in Setters, SetStores(s) \/ SetVerifies(s) \/ SetUndoes(s)
     PROVE  RunsExact'
  BY <1>2 DEF SetStores, SetVerifies, SetUndoes, TypeOK, WaitsForLast, RunsExact,
              SetStates, DelStates, Runs
<1>3. ASSUME NEW s \in Setters, StartCancels(s) \/ SetLeaves(s)
     PROVE  RunsExact'
  BY <1>3 DEF StartCancels, SetLeaves, TypeOK, WaitsForLast, RunsExact, SetStates,
              DelStates, Runs
<1>4. ASSUME NEW s \in Setters, StartLaunches(s)
     PROVE  RunsExact'
  BY <1>4 DEF StartLaunches, TypeOK, WaitsForLast, RunsExact, SetStates, DelStates,
              MayLaunch, Runs
<1>5. ASSUME NEW d \in Deleters, DelReads(d) \/ DelStep(d)
     PROVE  RunsExact'
  BY <1>5 DEF DelReads, DelLocks, DelHalts, DelErases, DelStep, TypeOK, WaitsForLast,
              RunsExact, SetStates, DelStates, Runs
<1>6. ASSUME NEW r \in Runs, RunErases(r) \/ RunEnds(r)
     PROVE  RunsExact'
  BY <1>6 DEF RunErases, RunEnds, RunsExact
<1>8. ASSUME NEW r \in Runs, RunRests(r)
     PROVE  RunsExact'
  <2> SUFFICES ASSUME "raced" \notin faults PROVE \A x \in on : x = r
    BY <1>8 DEF RunRests, RunsExact
  <2>1. r \in on
    BY <1>8 DEF RunRests, TypeOK
  <2> QED
    BY <2>1 DEF RunsExact
<1>7. ASSUME NEW p \in Pollers, PollArrives(p) \/ PollStep(p)
     PROVE  RunsExact'
  BY <1>7 DEF PollArrives, PollChecksActive, PollChecksRow, PollJoins, PollAnswers,
              PollStep, TypeOK, WaitsForLast, RunsExact, SetStates, DelStates, Runs
<1> QED
  BY <1>1, <1>2, <1>3, <1>4, <1>5, <1>6, <1>7, <1>8 DEF Next, SetStep, DelStep, PollStep,
     RunGoes

\* Who cancels a run waits for it.
LEMMA CancelledAwaitedStep ==
  ASSUME TypeOK, OneSetting, WaitsForLast, RunsExact, CancelledAwaited, Next
  PROVE  CancelledAwaited'
<1>1. ASSUME NEW s \in Setters, SetArgs(s) \/ SetRefused(s) \/ SetEnters(s)
     PROVE  CancelledAwaited'
  BY <1>1 DEF SetArgs, SetRefused, SetEnters, TypeOK, OneSetting, Setting, WaitsForLast,
              RunsExact, CancelledAwaited, SetStates, DelStates
<1>2. ASSUME NEW s \in Setters, SetSame(s) \/ SetAborts(s)
     PROVE  CancelledAwaited'
  BY <1>2 DEF SetSame, SetAborts, TypeOK, OneSetting, Setting, WaitsForLast, RunsExact,
              CancelledAwaited, SetStates, DelStates
<1>3. ASSUME NEW s \in Setters, SetStores(s) \/ SetVerifies(s) \/ SetUndoes(s)
     PROVE  CancelledAwaited'
  BY <1>3 DEF SetStores, SetVerifies, SetUndoes, TypeOK, OneSetting, Setting, WaitsForLast,
              RunsExact, CancelledAwaited, SetStates, DelStates
<1>4. ASSUME NEW s \in Setters, StartCancels(s)
     PROVE  CancelledAwaited'
  BY <1>4 DEF StartCancels, TypeOK, OneSetting, Setting, WaitsForLast, RunsExact,
              CancelledAwaited, SetStates, DelStates
<1>5. ASSUME NEW s \in Setters, StartLaunches(s)
     PROVE  CancelledAwaited'
  BY <1>5 DEF StartLaunches, TypeOK, OneSetting, Setting, WaitsForLast, RunsExact,
              CancelledAwaited, SetStates, DelStates, MayLaunch
<1>6. ASSUME NEW s \in Setters, SetLeaves(s)
     PROVE  CancelledAwaited'
  BY <1>6 DEF SetLeaves, TypeOK, OneSetting, Setting, WaitsForLast, RunsExact,
              CancelledAwaited, SetStates, DelStates
<1>7. ASSUME NEW d \in Deleters, DelReads(d)
     PROVE  CancelledAwaited'
  BY <1>7 DEF DelReads, TypeOK, OneSetting, Setting, WaitsForLast, RunsExact,
              CancelledAwaited, SetStates, DelStates
<1>8. ASSUME NEW d \in Deleters, DelLocks(d)
     PROVE  CancelledAwaited'
  BY <1>8 DEF DelLocks, TypeOK, OneSetting, Setting, WaitsForLast, RunsExact,
              CancelledAwaited, SetStates, DelStates
<1>9. ASSUME NEW d \in Deleters, DelHalts(d) \/ DelErases(d)
     PROVE  CancelledAwaited'
  BY <1>9 DEF DelHalts, DelErases, TypeOK, OneSetting, Setting, WaitsForLast, RunsExact,
              CancelledAwaited, SetStates, DelStates
<1>10. ASSUME NEW r \in Runs, RunErases(r) \/ RunGoes(r)
     PROVE  CancelledAwaited'
  BY <1>10 DEF RunErases, RunGoes, RunEnds, RunRests, TypeOK, OneSetting, Setting,
               WaitsForLast, RunsExact, CancelledAwaited, SetStates, DelStates
<1>11. ASSUME NEW p \in Pollers, PollArrives(p) \/ PollStep(p)
     PROVE  CancelledAwaited'
  BY <1>11 DEF PollArrives, PollChecksActive, PollChecksRow, PollJoins, PollAnswers,
               PollStep, TypeOK, OneSetting, Setting, WaitsForLast, RunsExact,
               CancelledAwaited, SetStates, DelStates
<1> QED
  BY <1>1, <1>2, <1>3, <1>4, <1>5, <1>6, <1>7, <1>8, <1>9, <1>10, <1>11 DEF Next, SetStep,
     DelStep, PollStep

-----------------------------------------------------------------------------
(* The row and the filter.                                                 *)

\* Next to the one setWebhook at work others are at their check at most.
LEMMA Alone ==
  ASSUME OneSetting, NEW s \in Setting
  PROVE  \A t \in Setters : t # s => set[t].pc \in {"idle", "check"}
BY DEF OneSetting, Setting

\* Row, configuration and IsActive through a setWebhook, deleteWebhooks and a close.
LEMMA RowFollowsStep ==
  ASSUME TypeOK, OneSetting, Configured, RunsExact, RowFollows, Next
  PROVE  RowFollows'
<1>1. ASSUME NEW s \in Setters, SetArgs(s)
     PROVE  RowFollows'
  BY <1>1 DEF SetArgs, TypeOK, OneSetting, Configured, RunsExact, RowFollows, RowInStep,
              Stored, Setting, Deleting, Leftovers, Filtering, SetStates, DelStates
<1>2. ASSUME NEW s \in Setters, SetRefused(s)
     PROVE  RowFollows'
  BY <1>2 DEF SetRefused, TypeOK, OneSetting, Configured, RunsExact, RowFollows, RowInStep,
              Stored, Setting, Deleting, Leftovers, Filtering, SetStates, DelStates
<1>3. ASSUME NEW s \in Setters, SetEnters(s)
     PROVE  RowFollows'
  <2> SUFFICES ASSUME faults' \subseteq Leftovers PROVE RowInStep'
    BY DEF RowFollows
  <2>1. faults \subseteq Leftovers /\ Deleting = {} /\ RowInStep
    BY <1>3 DEF SetEnters, RowFollows, Leftovers, Filtering
  <2>2. Setting = {}
    BY <1>3 DEF SetEnters, OneSetting
  <2>3. set'[s].pc = "same" /\ \A t \in Setters : t # s => set'[t] = set[t]
    BY <1>3 DEF SetEnters, TypeOK
  <2>4. Stored = {} /\ Stored' = {}
    BY <2>2, <2>3 DEF Stored, Setting
  <2>5. Deleting' = {} /\ \A d \in Deleters : del'[d].pc = "idle"
    BY <1>3, <2>1 DEF SetEnters, Deleting
  <2> QED
    BY <1>3, <2>1, <2>4, <2>5 DEF SetEnters, RowInStep
<1>4. ASSUME NEW s \in Setters, SetSame(s) \/ SetAborts(s)
     PROVE  RowFollows'
  BY <1>4 DEF SetSame, SetAborts, TypeOK, OneSetting, Configured, RunsExact, RowFollows,
              RowInStep, Stored, Setting, Deleting, Leftovers, Filtering, SetStates,
              DelStates
<1>5. ASSUME NEW s \in Setters, SetStores(s)
     PROVE  RowFollows'
  BY <1>5 DEF SetStores, TypeOK, OneSetting, Configured, RunsExact, RowFollows, RowInStep,
              Stored, Setting, Deleting, Leftovers, Filtering, SetStates, DelStates
<1>6. ASSUME NEW s \in Setters, SetVerifies(s)
     PROVE  RowFollows'
  BY <1>6 DEF SetVerifies, TypeOK, OneSetting, Configured, RunsExact, RowFollows,
              RowInStep, Stored, Setting, Deleting, Leftovers, Filtering, SetStates,
              DelStates
<1>7. ASSUME NEW s \in Setters, SetUndoes(s)
     PROVE  RowFollows'
  BY <1>7 DEF SetUndoes, RowFollows, Leftovers, Filtering
<1>8. ASSUME NEW s \in Setters, StartCancels(s)
     PROVE  RowFollows'
  BY <1>8 DEF StartCancels, TypeOK, OneSetting, Configured, RunsExact, RowFollows,
              RowInStep, Stored, Setting, Deleting, Leftovers, Filtering, SetStates,
              DelStates
<1>9. ASSUME NEW s \in Setters, StartLaunches(s)
     PROVE  RowFollows'
  BY <1>9 DEF StartLaunches, MayLaunch, TypeOK, OneSetting, Configured, RunsExact,
              RowFollows, RowInStep, Stored, Setting, Deleting, Leftovers, Filtering,
              SetStates, DelStates
<1>10. ASSUME NEW s \in Setters, SetLeaves(s)
     PROVE  RowFollows'
  BY <1>10 DEF SetLeaves, TypeOK, OneSetting, Configured, RunsExact, RowFollows, RowInStep,
               Stored, Setting, Deleting, Leftovers, Filtering, SetStates, DelStates
<1>11. ASSUME NEW d \in Deleters, DelReads(d)
     PROVE  RowFollows'
  <2> SUFFICES ASSUME faults' \subseteq Leftovers PROVE RowInStep'
    BY DEF RowFollows
  <2>1. faults \subseteq Leftovers /\ Setting = {} /\ RowInStep
    BY <1>11 DEF DelReads, RowFollows, Leftovers, Filtering
  <2>2. Setting' = Setting /\ Stored' = Stored
    BY <1>11 DEF DelReads, Setting, Stored
  <2>3. \A x \in Deleters : del'[x].pc = "erase" => del[x].pc = "erase"
    BY <1>11 DEF DelReads, TypeOK
  <2> QED
    BY <1>11, <2>1, <2>2, <2>3 DEF DelReads, RowInStep, Stored
<1>12. ASSUME NEW d \in Deleters, DelLocks(d)
     PROVE  RowFollows'
  BY <1>12 DEF DelLocks, TypeOK, OneSetting, Configured, RunsExact, RowFollows, RowInStep,
               Stored, Setting, Deleting, Leftovers, Filtering, SetStates, DelStates
<1>13. ASSUME NEW d \in Deleters, DelHalts(d)
     PROVE  RowFollows'
  BY <1>13 DEF DelHalts, TypeOK, OneSetting, Configured, RunsExact, RowFollows, RowInStep,
               Stored, Setting, Deleting, Leftovers, Filtering, SetStates, DelStates
<1>14. ASSUME NEW d \in Deleters, DelErases(d)
     PROVE  RowFollows'
  BY <1>14 DEF DelErases, TypeOK, OneSetting, Configured, RunsExact, RowFollows, RowInStep,
               Stored, Setting, Deleting, Leftovers, Filtering, SetStates, DelStates
<1>15. ASSUME NEW r \in Runs, RunEnds(r)
     PROVE  RowFollows'
  BY <1>15 DEF RunEnds, TypeOK, OneSetting, Configured, RunsExact, RowFollows, RowInStep,
               Stored, Setting, Deleting, Leftovers, Filtering, SetStates, DelStates
<1>16. ASSUME NEW r \in Runs, RunErases(r)
     PROVE  RowFollows'
  <2> SUFFICES ASSUME faults' \subseteq Leftovers PROVE RowInStep'
    BY DEF RowFollows
  <2>1. faults \subseteq Leftovers /\ RowInStep
    BY <1>16 DEF RunErases, RowFollows, Leftovers, Filtering
  <2>2. Setting' = Setting /\ Stored' = Stored /\ Deleting' = Deleting /\ set' = set
    BY <1>16 DEF RunErases, Setting, Stored, Deleting
  <2>3. row' = row \/ (row' = None /\ Stored = {})
    BY <1>16 DEF RunErases, Leftovers, Filtering
  <2>4. closing' # {}
    BY <1>16 DEF RunErases
  <2> QED
    BY <1>16, <2>1, <2>2, <2>3, <2>4 DEF RunErases, RowInStep
<1>17. ASSUME NEW r \in Runs, RunRests(r)
     PROVE  RowFollows'
  BY <1>17 DEF RunRests, TypeOK, OneSetting, Configured, RunsExact, RowFollows, RowInStep,
               Stored, Setting, Deleting, Leftovers, Filtering, SetStates, DelStates
<1>18. ASSUME NEW p \in Pollers, PollArrives(p) \/ PollStep(p)
     PROVE  RowFollows'
  BY <1>18 DEF PollArrives, PollStep, PollChecksActive, PollChecksRow, PollJoins,
               PollAnswers, TypeOK, OneSetting, Configured, RunsExact, RowFollows,
               RowInStep, Stored, Setting, Deleting, Leftovers, Filtering, SetStates,
               DelStates
<1> QED
  BY <1>1, <1>2, <1>3, <1>4, <1>5, <1>6, <1>7, <1>8, <1>9, <1>10, <1>11, <1>12, <1>13,
     <1>14, <1>15, <1>16, <1>17, <1>18 DEF Next, SetStep, DelStep, PollStep, RunGoes

\* A row has a run, or somebody who deletes it.
LEMMA RowServedStep ==
  ASSUME TypeOK, OneSetting, WaitsForLast, RunsExact, CancelledAwaited, RowFollows, RowServed, Next
  PROVE  RowServed'
<1>1. ASSUME NEW s \in Setters, SetArgs(s)
     PROVE  RowServed'
  BY <1>1 DEF SetArgs, TypeOK, OneSetting, RunsExact, CancelledAwaited, RowFollows,
              RowInStep, RowServed, Stored, Setting, Deleting, Leftovers, Filtering,
              SetStates, DelStates
<1>2. ASSUME NEW s \in Setters, SetRefused(s)
     PROVE  RowServed'
  BY <1>2 DEF SetRefused, TypeOK, OneSetting, RunsExact, CancelledAwaited, RowFollows,
              RowInStep, RowServed, Stored, Setting, Deleting, Leftovers, Filtering,
              SetStates, DelStates
<1>3. ASSUME NEW s \in Setters, SetEnters(s)
     PROVE  RowServed'
  BY <1>3 DEF SetEnters, TypeOK, OneSetting, RunsExact, CancelledAwaited, RowFollows,
              RowInStep, RowServed, Stored, Setting, Deleting, Leftovers, Filtering,
              SetStates, DelStates
<1>4. ASSUME NEW s \in Setters, SetSame(s) \/ SetAborts(s)
     PROVE  RowServed'
  BY <1>4 DEF SetSame, SetAborts, TypeOK, OneSetting, RunsExact, CancelledAwaited,
              RowFollows, RowInStep, RowServed, Stored, Setting, Deleting, Leftovers,
              Filtering, SetStates, DelStates
<1>5. ASSUME NEW s \in Setters, SetStores(s)
     PROVE  RowServed'
  BY <1>5 DEF SetStores, TypeOK, OneSetting, RunsExact, CancelledAwaited, RowFollows,
              RowInStep, RowServed, Stored, Setting, Deleting, Leftovers, Filtering,
              SetStates, DelStates
<1>6. ASSUME NEW s \in Setters, SetVerifies(s)
     PROVE  RowServed'
  BY <1>6 DEF SetVerifies, TypeOK, OneSetting, RunsExact, CancelledAwaited, RowFollows,
              RowInStep, RowServed, Stored, Setting, Deleting, Leftovers, Filtering,
              SetStates, DelStates
<1>7. ASSUME NEW s \in Setters, SetUndoes(s)
     PROVE  RowServed'
  BY <1>7 DEF SetUndoes, RowServed, Filtering
<1>8. ASSUME NEW s \in Setters, StartCancels(s)
     PROVE  RowServed'
  BY <1>8 DEF StartCancels, TypeOK, OneSetting, RunsExact, CancelledAwaited, RowFollows,
              RowInStep, RowServed, Stored, Setting, Deleting, Leftovers, Filtering,
              SetStates, DelStates
<1>9. ASSUME NEW s \in Setters, StartLaunches(s)
     PROVE  RowServed'
  <2> SUFFICES ASSUME faults' \subseteq Filtering PROVE active' /\ closing' = {}
    BY DEF RowServed
  <2>1. "raced" \notin faults
    BY <1>9 DEF StartLaunches, Filtering
  <2>2. on = {}
    BY <1>9, <2>1 DEF StartLaunches, MayLaunch, WaitsForLast, RunsExact
  <2> QED
    BY <1>9, <2>2 DEF StartLaunches, TypeOK
<1>10. ASSUME NEW s \in Setters, SetLeaves(s)
     PROVE  RowServed'
  BY <1>10 DEF SetLeaves, TypeOK, OneSetting, RunsExact, CancelledAwaited, RowFollows,
               RowInStep, RowServed, Stored, Setting, Deleting, Leftovers, Filtering,
               SetStates, DelStates
<1>11. ASSUME NEW d \in Deleters, DelReads(d)
     PROVE  RowServed'
  BY <1>11 DEF DelReads, TypeOK, OneSetting, RunsExact, CancelledAwaited, RowFollows,
               RowInStep, RowServed, Stored, Setting, Deleting, Leftovers, Filtering,
               SetStates, DelStates
<1>12. ASSUME NEW d \in Deleters, DelLocks(d)
     PROVE  RowServed'
  BY <1>12 DEF DelLocks, TypeOK, OneSetting, RunsExact, CancelledAwaited, RowFollows,
               RowInStep, RowServed, Stored, Setting, Deleting, Leftovers, Filtering,
               SetStates, DelStates
<1>13. ASSUME NEW d \in Deleters, DelHalts(d)
     PROVE  RowServed'
  BY <1>13 DEF DelHalts, TypeOK, OneSetting, RunsExact, CancelledAwaited, RowFollows,
               RowInStep, RowServed, Stored, Setting, Deleting, Leftovers, Filtering,
               SetStates, DelStates
<1>14. ASSUME NEW d \in Deleters, DelErases(d)
     PROVE  RowServed'
  BY <1>14 DEF DelErases, TypeOK, OneSetting, RunsExact, CancelledAwaited, RowFollows,
               RowInStep, RowServed, Stored, Setting, Deleting, Leftovers, Filtering,
               SetStates, DelStates
<1>15. ASSUME NEW r \in Runs, RunEnds(r)
     PROVE  RowServed'
  BY <1>15 DEF RunEnds, TypeOK, OneSetting, RunsExact, CancelledAwaited, RowFollows,
               RowInStep, RowServed, Stored, Setting, Deleting, Leftovers, Filtering,
               SetStates, DelStates
<1>16. ASSUME NEW r \in Runs, RunErases(r)
     PROVE  RowServed'
  BY <1>16 DEF RunErases, TypeOK, OneSetting, RunsExact, CancelledAwaited, RowFollows,
               RowInStep, RowServed, Stored, Setting, Deleting, Leftovers, Filtering,
               SetStates, DelStates
<1>17. ASSUME NEW r \in Runs, RunRests(r)
     PROVE  RowServed'
  BY <1>17 DEF RunRests, TypeOK, OneSetting, RunsExact, CancelledAwaited, RowFollows,
               RowInStep, RowServed, Stored, Setting, Deleting, Leftovers, Filtering,
               SetStates, DelStates
<1>18. ASSUME NEW p \in Pollers, PollArrives(p) \/ PollStep(p)
     PROVE  RowServed'
  BY <1>18 DEF PollArrives, PollStep, PollChecksActive, PollChecksRow, PollJoins,
               PollAnswers, TypeOK, OneSetting, RunsExact, CancelledAwaited, RowFollows,
               RowInStep, RowServed, Stored, Setting, Deleting, Leftovers, Filtering,
               SetStates, DelStates
<1> QED
  BY <1>1, <1>2, <1>3, <1>4, <1>5, <1>6, <1>7, <1>8, <1>9, <1>10, <1>11, <1>12, <1>13,
     <1>14, <1>15, <1>16, <1>17, <1>18 DEF Next, SetStep, DelStep, PollStep, RunGoes

\* The filter through a setWebhook.
LEMMA FilterFollowsStep ==
  ASSUME TypeOK, OneSetting, Configured, RowFollows, FilterFollows, Next
  PROVE  FilterFollows'
<1>1. ASSUME NEW s \in Setters, SetArgs(s)
     PROVE  FilterFollows'
  <2> SUFFICES ASSUME faults' \subseteq {"kept"} PROVE FilterInStep'
    BY DEF FilterFollows
  <2>1. faults \subseteq {"kept"} /\ \A t \in Setters : set[t].pc = "idle"
    BY <1>1 DEF SetArgs
  <2>2. set'[s].pc = "check" /\ allowed' = set'[s].cfg.allowed
    BY <1>1 DEF SetArgs, FilterFor, TypeOK
  <2>3. \A t \in Setters : t # s => set'[t].pc = "idle"
    BY <1>1, <2>1 DEF SetArgs, TypeOK
  <2> QED
    BY <2>2, <2>3 DEF FilterInStep
<1>2. ASSUME NEW s \in Setters, SetRefused(s)
     PROVE  FilterFollows'
  BY <1>2 DEF SetRefused, TypeOK, OneSetting, Configured,
              FilterFollows, FilterInStep, Setting, SetStates
<1>3. ASSUME NEW s \in Setters, SetEnters(s)
     PROVE  FilterFollows'
  BY <1>3 DEF SetEnters, TypeOK, OneSetting, Configured,
              FilterFollows, FilterInStep, Setting, SetStates
<1>4. ASSUME NEW s \in Setters, SetSame(s)
     PROVE  FilterFollows'
  BY <1>4 DEF SetSame, TypeOK, OneSetting, Configured,
              FilterFollows, FilterInStep, Setting, SetStates
<1>5. ASSUME NEW s \in Setters, SetAborts(s)
     PROVE  FilterFollows'
  BY <1>5 DEF SetAborts, TypeOK, OneSetting, Configured,
              FilterFollows, FilterInStep, Setting, SetStates
<1>6. ASSUME NEW s \in Setters, SetStores(s)
     PROVE  FilterFollows'
  <2> SUFFICES ASSUME faults' \subseteq {"kept"} PROVE FilterInStep'
    BY DEF FilterFollows
  <2>1. faults \subseteq {"kept"} /\ set' = [set EXCEPT ![s].pc = "verify"]
    BY <1>6 DEF SetStores
  <2>2. \A t \in Setters : t # s => set'[t].pc = "idle"
    BY <1>6, <2>1 DEF SetStores, TypeOK, FilterFollows, FilterInStep
  <2>3. set'[s].pc = "verify" /\ allowed' = set'[s].cfg.allowed
    BY <1>6, <2>1 DEF SetStores, TypeOK, FilterFollows, FilterInStep, SetStates
  <2> QED
    BY <2>1, <2>2, <2>3 DEF FilterInStep
<1>7. ASSUME NEW s \in Setters, SetVerifies(s)
     PROVE  FilterFollows'
  BY <1>7 DEF SetVerifies, TypeOK, OneSetting, Configured,
              FilterFollows, FilterInStep, Setting, SetStates
<1>8. ASSUME NEW s \in Setters, SetUndoes(s)
     PROVE  FilterFollows'
  BY <1>8 DEF SetUndoes, FilterFollows
<1>9. ASSUME NEW s \in Setters, StartCancels(s)
     PROVE  FilterFollows'
  BY <1>9 DEF StartCancels, TypeOK, OneSetting, Configured,
              FilterFollows, FilterInStep, Setting, SetStates
<1>10. ASSUME NEW s \in Setters, StartLaunches(s)
     PROVE  FilterFollows'
  BY <1>10 DEF StartLaunches, MayLaunch, TypeOK, OneSetting, Configured, RowFollows,
               RowInStep, Leftovers, Stored, Filtering, FilterFollows, FilterInStep,
               Setting, SetStates
<1>11. ASSUME NEW s \in Setters, SetLeaves(s)
     PROVE  FilterFollows'
  BY <1>11 DEF SetLeaves, TypeOK, OneSetting, Configured,
               FilterFollows, FilterInStep, Setting, SetStates
<1>12. ASSUME NEW d \in Deleters, DelReads(d) \/ DelLocks(d)
     PROVE  FilterFollows'
  BY <1>12 DEF DelReads, DelLocks, TypeOK, OneSetting, Configured,
               FilterFollows, FilterInStep, Setting, SetStates
<1>13. ASSUME NEW d \in Deleters, DelHalts(d)
     PROVE  FilterFollows'
  BY <1>13 DEF DelHalts, TypeOK, OneSetting, Configured,
               FilterFollows, FilterInStep, Setting, SetStates
<1>14. ASSUME NEW d \in Deleters, DelErases(d)
     PROVE  FilterFollows'
  <2> SUFFICES ASSUME faults' \subseteq {"kept"} PROVE FilterInStep'
    BY DEF FilterFollows
  <2>1. faults \subseteq {"kept"} /\ row' \in {None, row}
    BY <1>14 DEF DelErases
  <2> QED
    BY <1>14, <2>1 DEF DelErases, FilterFollows, FilterInStep
<1>15. ASSUME NEW r \in Runs, RunEnds(r)
     PROVE  FilterFollows'
  BY <1>15 DEF RunEnds, FilterFollows, FilterInStep
<1>16. ASSUME NEW r \in Runs, RunErases(r)
     PROVE  FilterFollows'
  <2> SUFFICES ASSUME faults' \subseteq {"kept"} PROVE FilterInStep'
    BY DEF FilterFollows
  <2>1. faults \subseteq {"kept"} /\ row' \in {None, row}
    BY <1>16 DEF RunErases
  <2> QED
    BY <1>16, <2>1 DEF RunErases, FilterFollows, FilterInStep
<1>20. ASSUME NEW r \in Runs, RunRests(r)
     PROVE  FilterFollows'
  BY <1>20 DEF RunRests, FilterFollows, FilterInStep
<1>17. ASSUME NEW p \in Pollers, PollArrives(p) \/ PollChecksActive(p) \/ PollChecksRow(p)
     PROVE  FilterFollows'
  BY <1>17 DEF PollArrives, PollChecksActive, PollChecksRow, TypeOK, OneSetting,
               Configured, FilterFollows, FilterInStep,
               Setting, SetStates
<1>18. ASSUME NEW p \in Pollers, PollJoins(p)
     PROVE  FilterFollows'
  <2> SUFFICES ASSUME faults' \subseteq {"kept"} PROVE FilterInStep'
    BY DEF FilterFollows
  <2>1. faults \subseteq {"kept"}
    BY <1>18 DEF PollJoins
  <2>2. allowed' = allowed \/ (row = None /\ \A t \in Setters : set[t].pc = "idle")
    BY <1>18 DEF PollJoins
  <2> QED
    BY <1>18, <2>1, <2>2 DEF PollJoins, FilterFollows, FilterInStep
<1>19. ASSUME NEW p \in Pollers, PollAnswers(p)
     PROVE  FilterFollows'
  BY <1>19 DEF PollAnswers, TypeOK, OneSetting, Configured,
               FilterFollows, FilterInStep, Setting, SetStates
<1> QED
  BY <1>1, <1>2, <1>3, <1>4, <1>5, <1>6, <1>7, <1>8, <1>9, <1>10, <1>11, <1>12, <1>13,
     <1>14, <1>15, <1>16, <1>17, <1>18, <1>19, <1>20 DEF Next, SetStep, DelStep, PollStep,
     RunGoes

-----------------------------------------------------------------------------
(* Polls.                                                                  *)

\* Who joins takes the place of the registered poll and tells it.
LEMMA OneLongPollStep ==
  ASSUME TypeOK, OneLongPoll, Next
  PROVE  OneLongPoll'
<1>1. ASSUME NEW s \in Setters, SetArgs(s) \/ SetRefused(s) \/ SetEnters(s)
                                \/ SetSame(s) \/ SetStores(s) \/ SetVerifies(s)
                                \/ SetUndoes(s) \/ StartCancels(s) \/ StartLaunches(s)
                                \/ SetLeaves(s)
     PROVE  OneLongPoll'
  BY <1>1 DEF SetArgs, SetRefused, SetEnters, SetSame, SetStores, SetVerifies, SetUndoes,
              StartCancels, StartLaunches, SetLeaves, TypeOK, OneLongPoll, PollStates
<1>2. ASSUME NEW s \in Setters, SetAborts(s)
     PROVE  OneLongPoll'
  BY <1>2 DEF SetAborts, TypeOK, OneLongPoll, PollStates, AbortLongPoll
<1>3. ASSUME NEW d \in Deleters, DelReads(d) \/ DelStep(d)
     PROVE  OneLongPoll'
  BY <1>3 DEF DelReads, DelLocks, DelHalts, DelErases, DelStep, TypeOK, OneLongPoll,
              PollStates
<1>4. ASSUME NEW r \in Runs, RunErases(r) \/ RunGoes(r)
     PROVE  OneLongPoll'
  BY <1>4 DEF RunErases, RunGoes, RunEnds, RunRests, TypeOK, OneLongPoll, PollStates
<1>5. ASSUME NEW p \in Pollers, PollArrives(p) \/ PollChecksActive(p) \/ PollChecksRow(p)
     PROVE  OneLongPoll'
  BY <1>5 DEF PollArrives, PollChecksActive, PollChecksRow, TypeOK, OneLongPoll,
              PollStates, SeesBusy
<1>6. ASSUME NEW p \in Pollers, PollJoins(p)
     PROVE  OneLongPoll'
  BY <1>6 DEF PollJoins, TypeOK, OneLongPoll, PollStates, AbortLongPoll
<1>7. ASSUME NEW p \in Pollers, PollAnswers(p)
     PROVE  OneLongPoll'
  BY <1>7 DEF PollAnswers, TypeOK, OneLongPoll, PollStates, RegistrationWithout
<1> QED
  BY <1>1, <1>2, <1>3, <1>4, <1>5, <1>6, <1>7 DEF Next, SetStep, DelStep, PollStep

\* A setWebhook aborts the polls before it starts a run.
LEMMA PollsLookLateStep ==
  ASSUME TypeOK, OneSetting, PollsLookLate, Next
  PROVE  PollsLookLate'
<1>1. ASSUME NEW s \in Setters, SetArgs(s) \/ SetRefused(s) \/ SetEnters(s)
     PROVE  PollsLookLate'
  BY <1>1 DEF SetArgs, SetRefused, SetEnters, TypeOK, OneSetting, PollsLookLate, Setting,
              SetStates, PollStates
<1>2. ASSUME NEW s \in Setters, SetSame(s)
     PROVE  PollsLookLate'
  BY <1>2 DEF SetSame, TypeOK, OneSetting, PollsLookLate, Setting, SetStates, PollStates
<1>3. ASSUME NEW s \in Setters, SetAborts(s)
     PROVE  PollsLookLate'
  BY <1>3 DEF SetAborts, TypeOK, OneSetting, PollsLookLate, Setting, SetStates, PollStates
<1>4. ASSUME NEW s \in Setters, SetStores(s) \/ SetVerifies(s)
     PROVE  PollsLookLate'
  BY <1>4 DEF SetStores, SetVerifies, TypeOK, OneSetting, PollsLookLate, Setting,
              SetStates, PollStates
<1>5. ASSUME NEW s \in Setters, SetUndoes(s) \/ StartCancels(s)
     PROVE  PollsLookLate'
  BY <1>5 DEF SetUndoes, StartCancels, TypeOK, OneSetting, PollsLookLate, Setting,
              SetStates, PollStates
<1>6. ASSUME NEW s \in Setters, StartLaunches(s)
     PROVE  PollsLookLate'
  BY <1>6 DEF StartLaunches, TypeOK, OneSetting, PollsLookLate, Setting, SetStates,
              PollStates, MayLaunch
<1>7. ASSUME NEW s \in Setters, SetLeaves(s)
     PROVE  PollsLookLate'
  BY <1>7 DEF SetLeaves, TypeOK, OneSetting, PollsLookLate, Setting, SetStates, PollStates
<1>8. ASSUME NEW d \in Deleters, DelReads(d) \/ DelStep(d)
     PROVE  PollsLookLate'
  BY <1>8 DEF DelReads, DelLocks, DelHalts, DelErases, DelStep, TypeOK, OneSetting,
              PollsLookLate, Setting, SetStates, PollStates
<1>9. ASSUME NEW r \in Runs, RunErases(r) \/ RunGoes(r)
     PROVE  PollsLookLate'
  BY <1>9 DEF RunErases, RunGoes, RunEnds, RunRests, TypeOK, OneSetting, PollsLookLate,
              Setting, SetStates, PollStates
<1>10. ASSUME NEW p \in Pollers, PollArrives(p)
     PROVE  PollsLookLate'
  BY <1>10 DEF PollArrives, TypeOK, OneSetting, PollsLookLate, Setting, SetStates,
               PollStates, SeesBusy
<1>11. ASSUME NEW p \in Pollers, PollChecksActive(p) \/ PollChecksRow(p)
     PROVE  PollsLookLate'
  BY <1>11 DEF PollChecksActive, PollChecksRow, TypeOK, OneSetting, PollsLookLate, Setting,
               SetStates, PollStates
<1>12. ASSUME NEW p \in Pollers, PollJoins(p)
     PROVE  PollsLookLate'
  BY <1>12 DEF PollJoins, TypeOK, OneSetting, PollsLookLate, Setting, SetStates, PollStates
<1>13. ASSUME NEW p \in Pollers, PollAnswers(p)
     PROVE  PollsLookLate'
  BY <1>13 DEF PollAnswers, TypeOK, OneSetting, PollsLookLate, Setting, SetStates,
               PollStates
<1> QED
  BY <1>1, <1>2, <1>3, <1>4, <1>5, <1>6, <1>7, <1>8, <1>9, <1>10, <1>11, <1>12,
     <1>13 DEF Next, SetStep, DelStep, PollStep

-----------------------------------------------------------------------------
(* The theorems.                                                           *)

LEMMA WebhookInit == Init => WebhookInv
<1> SUFFICES ASSUME Init PROVE WebhookInv
  OBVIOUS
<1>1. /\ \A s \in Setters : set[s].pc = "idle"
      /\ \A d \in Deleters : del[d].pc = "idle"
      /\ \A p \in Pollers : poll[p].pc = "idle"
  BY DEF Init
<1>2. TypeOK
  <2>1. SetIdle \in SetStates /\ DelIdle \in DelStates /\ PollIdle \in PollStates
    BY DEF SetStates, DelStates, PollStates
  <2>2. /\ set \in [Setters -> SetStates] /\ del \in [Deleters -> DelStates]
        /\ poll \in [Pollers -> PollStates]
    BY <2>1 DEF Init
  <2>3. cur = 0 /\ aborts = 0 /\ conflict = {} /\ aborted = {}
    BY DEF Init
  <2>4. /\ \A s \in Setters : set[s].run <= cur
        /\ \A d \in Deleters : del[d].run <= cur
        /\ \A p \in Pollers : poll[p].since <= aborts
    BY <2>3 DEF Init
  <2>5. /\ row \in Configs \cup {None} /\ config \in Configs \cup {None}
        /\ allowed \in Filters /\ busy \in BOOLEAN /\ active \in BOOLEAN
        /\ cmu \in Deleters \cup {None} /\ registered \in Pollers \cup {None}
        /\ on \subseteq 1..cur /\ cancelled \subseteq 1..cur
    BY DEF Init
  <2>6. conflict \subseteq Pollers /\ aborted \subseteq conflict /\ cur \in Nat /\ aborts \in Nat
    BY <2>3
  <2>7. closing \subseteq on
    BY DEF Init
  <2> QED
    BY <2>2, <2>4, <2>5, <2>6, <2>7 DEF TypeOK
<1>3. OneSetting /\ Configured /\ WaitsForLast /\ CancelledAwaited /\ RunsExact
  BY <1>1 DEF Init, OneSetting, Setting, Configured, WaitsForLast, CancelledAwaited, RunsExact
<1>4. RowFollows /\ RowServed /\ FilterFollows
  BY <1>1 DEF Init, RowFollows, RowInStep, RowServed, FilterFollows, FilterInStep, Setting, Stored
<1>5. OneLongPoll /\ PollsLookLate
  BY <1>1 DEF OneLongPoll, PollsLookLate
<1> QED
  BY <1>2, <1>3, <1>4, <1>5 DEF WebhookInv

LEMMA WebhookStep == WebhookInv /\ [Next]_vars => WebhookInv'
<1>1. ASSUME WebhookInv, Next PROVE WebhookInv'
  <2>1. /\ TypeOK /\ OneSetting /\ Configured /\ WaitsForLast /\ CancelledAwaited /\ RunsExact
        /\ RowFollows /\ RowServed /\ FilterFollows /\ OneLongPoll /\ PollsLookLate
    BY <1>1 DEF WebhookInv
  <2>2. TypeOK' /\ OneSetting' /\ Configured' /\ WaitsForLast'
    BY <1>1, <2>1, TypeStep, OneSettingStep, ConfiguredStep, WaitsForLastStep
  <2>3. CancelledAwaited' /\ RunsExact'
    BY <1>1, <2>1, CancelledAwaitedStep, RunsExactStep
  <2>4. RowFollows' /\ RowServed' /\ FilterFollows'
    BY <1>1, <2>1, RowFollowsStep, RowServedStep, FilterFollowsStep
  <2>5. OneLongPoll' /\ PollsLookLate'
    BY <1>1, <2>1, OneLongPollStep, PollsLookLateStep
  <2> QED
    BY <2>2, <2>3, <2>4, <2>5 DEF WebhookInv
<1>2. ASSUME WebhookInv, UNCHANGED vars PROVE WebhookInv'
  <2>1. TypeOK'
    BY <1>2 DEF WebhookInv, TypeOK, vars
  <2>2. OneSetting' /\ Configured' /\ WaitsForLast' /\ CancelledAwaited' /\ RunsExact'
    BY <1>2 DEF WebhookInv, OneSetting, Setting, Configured, WaitsForLast, CancelledAwaited,
                RunsExact, vars
  <2>3. RowFollows' /\ RowServed'
    BY <1>2 DEF WebhookInv, RowFollows, RowInStep, RowServed, Setting, Deleting, Stored, vars
  <2>4. FilterFollows' /\ OneLongPoll' /\ PollsLookLate'
    BY <1>2 DEF WebhookInv, FilterFollows, FilterInStep, OneLongPoll, PollsLookLate, vars
  <2> QED
    BY <2>1, <2>2, <2>3, <2>4 DEF WebhookInv
<1> QED
  BY <1>1, <1>2

\* In every reachable state requests, row, filter, runs and polls agree
\* (webhook_handlers.go, deliver.go:165-307, getupdates.go).
THEOREM WebhookInvariant == Spec => []WebhookInv
BY WebhookInit, WebhookStep, PTL DEF Spec

\* Each variable has its type: runs are numbered up to the last, polls told of a
\* conflict are polls (deliver.go:33-57, client.go:63-76).
THEOREM WebhookTypeOK == Spec => []TypeOK
<1>1. WebhookInv => TypeOK
  BY DEF WebhookInv
<1> QED
  BY <1>1, WebhookInvariant, PTL

\* No two runs take the updates of one bot and IsActive is exact, for any number of
\* requests, unless a Start raced with a StopContext (deliver.go:173-198, 291-307).
THEOREM RunsAlwaysExact == Spec => []RunsExact
<1>1. WebhookInv => RunsExact
  BY DEF WebhookInv
<1> QED
  BY <1>1, WebhookInvariant, PTL

\* At rest what runs is the webhook of the row, even if a DELETE failed, and a row has
\* a run if none did, for any number of requests of which no setWebhook failed to verify
\* or overlapped a deleteWebhook or a close (webhook_handlers.go:116-239,
\* deliver.go:454-461).
THEOREM RowAlwaysAgrees == Spec => []RowAgrees
<1>1. WebhookInv => RowAgrees
  <2> SUFFICES ASSUME WebhookInv, Quiet PROVE RowAgrees
    BY DEF RowAgrees
  <2>1. Stored = {} /\ \A d \in Deleters : del[d].pc \notin {"halt", "erase"}
    BY DEF Quiet, Setting, Deleting, Stored
  <2>2. ASSUME faults \subseteq Leftovers, closing = {}, active PROVE row = config
    BY <2>1, <2>2 DEF WebhookInv, RowFollows, RowInStep
  <2>3. ASSUME faults \subseteq Filtering, row # None PROVE active
    BY <2>1, <2>3 DEF WebhookInv, RowServed
  <2> QED
    BY <2>2, <2>3 DEF RowAgrees
<1> QED
  BY <1>1, WebhookInvariant, PTL

\* At rest, if nothing went wrong but a DELETE, the filter of the updates is the one
\* of the row (webhook_handlers.go:99-105, getupdates.go:90-126).
THEOREM FilterAlwaysAgrees == Spec => []FilterAgrees
<1>1. WebhookInv => FilterAgrees
  BY DEF WebhookInv, FilterFollows, FilterInStep, FilterAgrees
<1> QED
  BY <1>1, WebhookInvariant, PTL

\* A long poll nobody told to end is the registered one, for any number of polls
\* and setWebhooks (getupdates.go:90-138, 198-225).
THEOREM AlwaysOneLongPoll == Spec => []OneLongPoll
<1>1. WebhookInv => OneLongPoll
  BY DEF WebhookInv
<1> QED
  BY <1>1, WebhookInvariant, PTL

\* Whatever fails or overlaps, a poll that goes on while a webhook is active
\* arrived before a setWebhook aborted the polls (webhook_handlers.go:182-184,
\* 307-322).
THEOREM NoPollBesideWebhook == Spec => []PollsBesideWebhookAreOld
<1>1. WebhookInv => PollsBesideWebhookAreOld
  <2> SUFFICES ASSUME WebhookInv, active, NEW p \in Pollers, poll[p].pc \in {"join", "get"}
               PROVE  poll[p].since < aborts
    BY DEF PollsBesideWebhookAreOld
  <2>1. poll[p].since \in Nat /\ aborts \in Nat /\ poll[p].since <= aborts
    BY DEF WebhookInv, TypeOK, PollStates
  <2>2. poll[p].since # aborts
    BY DEF WebhookInv, PollsLookLate
  <2> QED
    BY <2>1, <2>2
<1> QED
  BY <1>1, WebhookInvariant, PTL

=============================================================================
