-------------------------- MODULE Services_proofs --------------------------
(* Theorems about the services of qubesd that other parts are driven by: the *)
(* internal calls around suspend and the system's information, the calls of  *)
(* the Admin API and the events it sends, firewalls, backups, block devices, *)
(* and the devices assigned to qubes.                                        *)
EXTENDS InternalCalls, ApiCalls, QubeFirewall, Backup, BlockDevices, DeviceAssignments,
        SequenceTheorems, WellFoundedInduction, TLAPS

----------------------------------------------------------------------------
(* InternalCalls.                                                          *)

(* A step of a call or of the machine keeps types.                          *)
LEMMA InternalTypeStep == InternalInv /\ [InternalNext]_internalVars => InternalTypeOK'
<1> SUFFICES ASSUME InternalTypeOK, SleepInv, SystemInfoCurrent, [InternalNext]_internalVars
             PROVE InternalTypeOK'
  BY DEF InternalInv
<1>1. CASE GetSystemInfo
  BY <1>1, SMT
    DEF GetSystemInfo, InternalTypeOK, States, Asleep, is_running, domains, settings,
        suspension, notes
<1>2. ASSUME NEW q \in Qubes, NEW g \in Guis \cup {"default"}, SetGuivm(q, g)
     PROVE  InternalTypeOK'
  BY <1>2, SMT
    DEF SetGuivm, Move, Invalidate, InternalTypeOK, States, Asleep, is_running, domains,
        settings, suspension, notes
<1>3. ASSUME NEW g \in Guis, NEW reset \in BOOLEAN, SetDefault(g, reset)
     PROVE  InternalTypeOK'
  BY <1>3, SMT
    DEF SetDefault, Move, Invalidate, InternalTypeOK, States, Asleep, is_running,
        domains, settings, suspension, notes
<1>4. ASSUME NEW q \in Qubes, Start(q)
     PROVE  InternalTypeOK'
  BY <1>4, SMT
    DEF Start, Touch, Move, Power, InternalTypeOK, States, Asleep, is_running, domains,
        settings, suspension, notes
<1>5. ASSUME NEW q \in Qubes, QubeEnds(q)
     PROVE  InternalTypeOK'
  BY <1>5, SMT
    DEF QubeEnds, Touch, Move, InternalTypeOK, States, Asleep, is_running, domains,
        settings, suspension, notes
<1>6. ASSUME NEW q \in Qubes, PauseOrNot(q)
     PROVE  InternalTypeOK'
  BY <1>6, SMT
    DEF PauseOrNot, Touch, Move, Power, InternalTypeOK, States, Asleep, is_running,
        domains, settings, suspension, notes
<1>7. ASSUME NEW q \in Qubes, Told(q)
     PROVE  InternalTypeOK'
  BY <1>7, SMT
    DEF Told, Invalidate, InternalTypeOK, States, Asleep, is_running, domains, settings,
        suspension, notes
<1>8. ASSUME NEW q \in Qubes, RemoveQube(q)
     PROVE  InternalTypeOK'
  BY <1>8, SMT
    DEF RemoveQube, Touch, Move, Invalidate, InternalTypeOK, States, Asleep, is_running,
        domains, settings, suspension, notes
<1>9. ASSUME NEW q \in Qubes, CreateQube(q)
     PROVE  InternalTypeOK'
  BY <1>9, SMT
    DEF CreateQube, Move, Invalidate, InternalTypeOK, States, Asleep, is_running,
        domains, settings, suspension, notes
<1>10. ASSUME NEW q \in Qubes, suspend(q)
     PROVE  InternalTypeOK'
  BY <1>10, SMT
    DEF suspend, InternalTypeOK, States, Asleep, is_running, domains, settings,
        suspension, notes
<1>11. ASSUME NEW q \in Qubes, resume(q)
     PROVE  InternalTypeOK'
  BY <1>11, SMT
    DEF resume, InternalTypeOK, States, Asleep, is_running, domains, settings,
        suspension, notes
<1>12. CASE SuspendPre
  BY <1>12, SMT
    DEF SuspendPre, Move, InternalTypeOK, States, Asleep, is_running, domains, settings,
        suspension, notes
<1>13. CASE Suspends
  BY <1>13, SMT
    DEF Suspends, InternalTypeOK, States, Asleep, is_running, domains, settings,
        suspension, notes
<1>14. CASE Suspended
  BY <1>14, SMT
    DEF Suspended, InternalTypeOK, States, Asleep, is_running, domains, settings,
        suspension, notes
<1>15. CASE SuspendPost
  BY <1>15, SMT
    DEF SuspendPost, InternalTypeOK, States, Asleep, is_running, domains, settings,
        suspension, notes
<1>16. CASE Resumed
  BY <1>16, SMT
    DEF Resumed, InternalTypeOK, States, Asleep, is_running, domains, settings,
        suspension, notes
<1>17. CASE PostEnds
  BY <1>17, SMT
    DEF PostEnds, InternalTypeOK, States, Asleep, is_running, domains, settings,
        suspension, notes
<1>18. CASE InternalRestart
  BY <1>18, SMT
    DEF InternalRestart, Move, Invalidate, InternalTypeOK, States, Asleep, is_running,
        domains, settings, suspension, notes
<1>19. CASE UNCHANGED internalVars
  BY <1>19, SMT
    DEF internalVars, InternalTypeOK, States, Asleep, is_running, domains, settings,
        suspension, notes
<1>20. QED
  BY <1>1, <1>2, <1>3, <1>4, <1>5, <1>6, <1>7, <1>8, <1>9, <1>10, <1>11, <1>12, <1>13,
     <1>14, <1>15, <1>16, <1>17, <1>18, <1>19
    DEF InternalNext

(* While the host sleeps, the qubes that ran are suspended or paused, and    *)
(* whoever sleeps will be woken.                                            *)
LEMMA SleepStep == InternalInv /\ [InternalNext]_internalVars => SleepInv'
<1> SUFFICES ASSUME InternalTypeOK, SleepInv, SystemInfoCurrent, [InternalNext]_internalVars
             PROVE SleepInv'
  BY DEF InternalInv
<1>1. CASE GetSystemInfo
  BY <1>1, SMT
    DEF GetSystemInfo, InternalTypeOK, States, Asleep, is_running, SleepInv, Kept,
        domains, settings, suspension, notes
<1>2. ASSUME NEW q \in Qubes, NEW g \in Guis \cup {"default"}, SetGuivm(q, g)
     PROVE  SleepInv'
  BY <1>2, SMT
    DEF SetGuivm, Move, Invalidate, InternalTypeOK, States, Asleep, is_running, SleepInv,
        Kept, domains, settings, suspension, notes
<1>3. ASSUME NEW g \in Guis, NEW reset \in BOOLEAN, SetDefault(g, reset)
     PROVE  SleepInv'
  BY <1>3, SMT
    DEF SetDefault, Move, Invalidate, InternalTypeOK, States, Asleep, is_running,
        SleepInv, Kept, domains, settings, suspension, notes
<1>4. ASSUME NEW q \in Qubes, Start(q)
     PROVE  SleepInv'
  BY <1>4, SMT
    DEF Start, Touch, Move, Power, InternalTypeOK, States, Asleep, is_running, SleepInv,
        Kept, domains, settings, suspension, notes
<1>5. ASSUME NEW q \in Qubes, QubeEnds(q)
     PROVE  SleepInv'
  BY <1>5, SMT
    DEF QubeEnds, Touch, Move, InternalTypeOK, States, Asleep, is_running, SleepInv,
        Kept, domains, settings, suspension, notes
<1>6. ASSUME NEW q \in Qubes, PauseOrNot(q)
     PROVE  SleepInv'
  BY <1>6, SMT
    DEF PauseOrNot, Touch, Move, Power, InternalTypeOK, States, Asleep, is_running,
        SleepInv, Kept, domains, settings, suspension, notes
<1>7. ASSUME NEW q \in Qubes, Told(q)
     PROVE  SleepInv'
  BY <1>7, SMT
    DEF Told, Invalidate, InternalTypeOK, States, Asleep, is_running, SleepInv, Kept,
        domains, settings, suspension, notes
<1>8. ASSUME NEW q \in Qubes, RemoveQube(q)
     PROVE  SleepInv'
  BY <1>8, SMT
    DEF RemoveQube, Touch, Move, Invalidate, InternalTypeOK, States, Asleep, is_running,
        SleepInv, Kept, domains, settings, suspension, notes
<1>9. ASSUME NEW q \in Qubes, CreateQube(q)
     PROVE  SleepInv'
  BY <1>9, SMT
    DEF CreateQube, Move, Invalidate, InternalTypeOK, States, Asleep, is_running,
        SleepInv, Kept, domains, settings, suspension, notes
<1>10. ASSUME NEW q \in Qubes, suspend(q)
     PROVE  SleepInv'
  BY <1>10, SMT
    DEF suspend, InternalTypeOK, States, Asleep, is_running, SleepInv, Kept, domains,
        settings, suspension, notes
<1>11. ASSUME NEW q \in Qubes, resume(q)
     PROVE  SleepInv'
  BY <1>11, SMT
    DEF resume, InternalTypeOK, States, Asleep, is_running, SleepInv, Kept, domains,
        settings, suspension, notes
<1>12. CASE SuspendPre
  <2>1. /\ pc = "idle" /\ pc' = "notify" /\ record' = {q \in listed : power[q] \in Asleep}
        /\ UNCHANGED <<listed, power>>
    BY <1>12 DEF SuspendPre, domains
  <2>2. asleep' /\ (~twice' => (asleep => ~twice /\ \A q \in listed : power[q] \notin Asleep \ {was[q]}))
    BY <1>12, Zenon DEF SuspendPre
  <2>3. \A q \in Qubes \ listed : power[q] = "Halted"
    BY DEF SleepInv
  <2>4. ASSUME ~twice', NEW q \in Qubes \ touched'
        PROVE  (q \in record' <=> was'[q] \in Asleep) /\ Kept(q)'
    <3>1. CASE asleep
      <4>1. /\ UNCHANGED <<was, touched>> /\ ~twice
            /\ \A p \in listed : power[p] \notin Asleep \ {was[p]}
        BY <1>12, <2>2, <2>4, <3>1 DEF SuspendPre
      <4>2. /\ q \in record <=> was[q] \in Asleep
            /\ Kept(q) \/ (q \notin record /\ was[q] # "Halted" /\ power[q] \in Asleep)
        BY <2>1, <2>4, <3>1, <4>1 DEF SleepInv
      <4>3. was[q] \in States /\ (q \notin listed => power[q] = "Halted")
        BY <2>3 DEF InternalTypeOK
      <4>4. QED
        BY <2>1, <4>1, <4>2, <4>3 DEF Kept, Asleep, States
    <3>2. CASE ~asleep
      <4>1. was' = power
        BY <1>12, <3>2 DEF SuspendPre
      <4>2. QED
        BY <2>1, <2>3, <4>1 DEF Kept, Asleep, InternalTypeOK, States
    <3>3. QED
      BY <3>1, <3>2
  <2>5. QED
    BY <2>1, <2>2, <2>3, <2>4 DEF SleepInv
<1>13. CASE Suspends
  BY <1>13, SMT
    DEF Suspends, InternalTypeOK, States, Asleep, is_running, SleepInv, Kept, domains,
        settings, suspension, notes
<1>14. CASE Suspended
  BY <1>14, SMT
    DEF Suspended, InternalTypeOK, States, Asleep, is_running, SleepInv, Kept, domains,
        settings, suspension, notes
<1>15. CASE SuspendPost
  BY <1>15, SMT
    DEF SuspendPost, InternalTypeOK, States, Asleep, is_running, SleepInv, Kept, domains,
        settings, suspension, notes
<1>16. CASE Resumed
  BY <1>16, SMT
    DEF Resumed, InternalTypeOK, States, Asleep, is_running, SleepInv, Kept, domains,
        settings, suspension, notes
<1>17. CASE PostEnds
  BY <1>17, SMT
    DEF PostEnds, InternalTypeOK, States, Asleep, is_running, SleepInv, Kept, domains,
        settings, suspension, notes
<1>18. CASE InternalRestart
  <2>1. pc' = "idle" /\ UNCHANGED <<listed, power, record, was, touched, twice>>
    BY <1>18 DEF InternalRestart
  <2>2. asleep' => asleep /\ pc \notin {"resume", "awake"}
    BY <1>18, Zenon DEF InternalRestart
  <2>3. ASSUME asleep', ~twice', NEW q \in Qubes \ touched'
        PROVE  /\ q \in record' <=> was'[q] \in Asleep
               /\ Kept(q)' \/ (q \notin record' /\ was'[q] # "Halted" /\ power'[q] \in Asleep)
    <3>1. asleep /\ ~twice /\ pc \in {"idle", "notify", "suspend"}
      BY <2>1, <2>2, <2>3 DEF InternalTypeOK
    <3>2. QED
      BY <2>1, <2>3, <3>1 DEF SleepInv, Kept
  <2>4. QED
    BY <2>1, <2>3 DEF SleepInv
<1>19. CASE UNCHANGED internalVars
  BY <1>19, SMT
    DEF internalVars, InternalTypeOK, States, Asleep, is_running, SleepInv, Kept,
        domains, settings, suspension, notes
<1>20. QED
  BY <1>1, <1>2, <1>3, <1>4, <1>5, <1>6, <1>7, <1>8, <1>9, <1>10, <1>11, <1>12, <1>13,
     <1>14, <1>15, <1>16, <1>17, <1>18, <1>19
    DEF InternalNext

(* What changes the information forgets what was cached of it.              *)
LEMMA InfoStep == InternalInv /\ [InternalNext]_internalVars => SystemInfoCurrent'
<1> SUFFICES ASSUME InternalTypeOK, SleepInv, SystemInfoCurrent, [InternalNext]_internalVars
             PROVE SystemInfoCurrent'
  BY DEF InternalInv
<1>1. CASE GetSystemInfo
  BY <1>1, SMT
    DEF GetSystemInfo, InternalTypeOK, States, Asleep, is_running, guivm, NoInfo,
        SystemInfoCurrent, domains, settings, suspension, notes
<1>2. ASSUME NEW q \in Qubes, NEW g \in Guis \cup {"default"}, SetGuivm(q, g)
     PROVE  SystemInfoCurrent'
  BY <1>2, SMT
    DEF SetGuivm, Move, Invalidate, InternalTypeOK, States, Asleep, is_running, guivm,
        NoInfo, SystemInfoCurrent, domains, settings, suspension, notes
<1>3. ASSUME NEW g \in Guis, NEW reset \in BOOLEAN, SetDefault(g, reset)
     PROVE  SystemInfoCurrent'
  <2>1. CASE Invalidate
    BY <2>1 DEF Invalidate, SystemInfoCurrent
  <2>2. CASE ~Invalidate
    <3>1. UNCHANGED <<info, listed, power, event, own>> /\ default' = g
      BY <1>3, <2>2 DEF SetDefault, domains
    <3>2. (~missed' => ~missed /\ ~reset) /\ (reset \/ \A q \in listed : own[q] # "default")
      BY <1>3, <2>2, Zenon DEF SetDefault
    <3>3. ~missed' => \A q \in listed : guivm(q)' = guivm(q)
      BY <3>1, <3>2 DEF guivm
    <3>4. QED
      BY <3>1, <3>2, <3>3 DEF SystemInfoCurrent, is_running
  <2>3. QED
    BY <2>1, <2>2
<1>4. ASSUME NEW q \in Qubes, Start(q)
     PROVE  SystemInfoCurrent'
  BY <1>4, SMT
    DEF Start, Touch, Move, Power, InternalTypeOK, States, Asleep, is_running, guivm,
        NoInfo, SystemInfoCurrent, domains, settings, suspension, notes
<1>5. ASSUME NEW q \in Qubes, QubeEnds(q)
     PROVE  SystemInfoCurrent'
  BY <1>5, SMT
    DEF QubeEnds, Touch, Move, InternalTypeOK, States, Asleep, is_running, guivm, NoInfo,
        SystemInfoCurrent, domains, settings, suspension, notes
<1>6. ASSUME NEW q \in Qubes, PauseOrNot(q)
     PROVE  SystemInfoCurrent'
  BY <1>6, SMT
    DEF PauseOrNot, Touch, Move, Power, InternalTypeOK, States, Asleep, is_running,
        guivm, NoInfo, SystemInfoCurrent, domains, settings, suspension, notes
<1>7. ASSUME NEW q \in Qubes, Told(q)
     PROVE  SystemInfoCurrent'
  BY <1>7, SMT
    DEF Told, Invalidate, InternalTypeOK, States, Asleep, is_running, guivm, NoInfo,
        SystemInfoCurrent, domains, settings, suspension, notes
<1>8. ASSUME NEW q \in Qubes, RemoveQube(q)
     PROVE  SystemInfoCurrent'
  BY <1>8, SMT
    DEF RemoveQube, Touch, Move, Invalidate, InternalTypeOK, States, Asleep, is_running,
        guivm, NoInfo, SystemInfoCurrent, domains, settings, suspension, notes
<1>9. ASSUME NEW q \in Qubes, CreateQube(q)
     PROVE  SystemInfoCurrent'
  BY <1>9, SMT
    DEF CreateQube, Move, Invalidate, InternalTypeOK, States, Asleep, is_running, guivm,
        NoInfo, SystemInfoCurrent, domains, settings, suspension, notes
<1>10. ASSUME NEW q \in Qubes, suspend(q)
     PROVE  SystemInfoCurrent'
  BY <1>10, SMT
    DEF suspend, InternalTypeOK, States, Asleep, is_running, guivm, NoInfo,
        SystemInfoCurrent, domains, settings, suspension, notes
<1>11. ASSUME NEW q \in Qubes, resume(q)
     PROVE  SystemInfoCurrent'
  BY <1>11, SMT
    DEF resume, InternalTypeOK, States, Asleep, is_running, guivm, NoInfo,
        SystemInfoCurrent, domains, settings, suspension, notes
<1>12. CASE SuspendPre
  BY <1>12, SMT
    DEF SuspendPre, Move, InternalTypeOK, States, Asleep, is_running, guivm, NoInfo,
        SystemInfoCurrent, domains, settings, suspension, notes
<1>13. CASE Suspends
  BY <1>13, SMT
    DEF Suspends, InternalTypeOK, States, Asleep, is_running, guivm, NoInfo,
        SystemInfoCurrent, domains, settings, suspension, notes
<1>14. CASE Suspended
  BY <1>14, SMT
    DEF Suspended, InternalTypeOK, States, Asleep, is_running, guivm, NoInfo,
        SystemInfoCurrent, domains, settings, suspension, notes
<1>15. CASE SuspendPost
  BY <1>15, SMT
    DEF SuspendPost, InternalTypeOK, States, Asleep, is_running, guivm, NoInfo,
        SystemInfoCurrent, domains, settings, suspension, notes
<1>16. CASE Resumed
  BY <1>16, SMT
    DEF Resumed, InternalTypeOK, States, Asleep, is_running, guivm, NoInfo,
        SystemInfoCurrent, domains, settings, suspension, notes
<1>17. CASE PostEnds
  BY <1>17, SMT
    DEF PostEnds, InternalTypeOK, States, Asleep, is_running, guivm, NoInfo,
        SystemInfoCurrent, domains, settings, suspension, notes
<1>18. CASE InternalRestart
  BY <1>18, SMT
    DEF InternalRestart, Move, Invalidate, InternalTypeOK, States, Asleep, is_running,
        guivm, NoInfo, SystemInfoCurrent, domains, settings, suspension, notes
<1>19. CASE UNCHANGED internalVars
  BY <1>19, SMT
    DEF internalVars, InternalTypeOK, States, Asleep, is_running, guivm, NoInfo,
        SystemInfoCurrent, domains, settings, suspension, notes
<1>20. QED
  BY <1>1, <1>2, <1>3, <1>4, <1>5, <1>6, <1>7, <1>8, <1>9, <1>10, <1>11, <1>12, <1>13,
     <1>14, <1>15, <1>16, <1>17, <1>18, <1>19
    DEF InternalNext

(* What internal.SuspendPre, SuspendPost and GetSystemInfo rely on holds     *)
(* whatever qubes do in between.                                            *)
THEOREM InternalInvariant == InternalSpec => []InternalInv
<1>1. InternalInit => InternalInv
  BY SMT DEF InternalInit, InternalInv, InternalTypeOK, States, Asleep, SleepInv, Kept,
             SystemInfoCurrent, NoInfo
<1>2. InternalInv /\ [InternalNext]_internalVars => InternalInv'
  BY InternalTypeStep, SleepStep, InfoStep DEF InternalInv
<1> QED
  BY <1>1, <1>2, PTL DEF InternalSpec

(* A qube that slept with the host is afterwards as it was before, however   *)
(* the calls interleave with its own life.                                  *)
THEOREM WokenAsBefore == InternalSpec => []RestoredAfterSleep
<1>1. InternalInv => RestoredAfterSleep
  BY DEF InternalInv, InternalTypeOK, SleepInv, RestoredAfterSleep
<1> QED
  BY <1>1, InternalInvariant, PTL

(* The information that internal.GetSystemInfo answers from its cache is what *)
(* it would make now.                                                       *)
THEOREM CachedInfoIsCurrent == InternalSpec => []SystemInfoCurrent
<1>1. InternalInv => SystemInfoCurrent
  BY DEF InternalInv
<1> QED
  BY <1>1, InternalInvariant, PTL

----------------------------------------------------------------------------
(* ApiCalls.                                                               *)

(* A client that is still there is sent what is written.                    *)
LEMMA WriteEffect ==
    ASSUME ApiTypeOK, NEW c \in Clients, NEW what \in Seq(Sendable), Write(c, what),
           sent[c] = <<>>
    PROVE  /\ sent' \in [Clients -> Seq(Sendable)]
           /\ \A d \in Clients \ {c} : sent'[d] = sent[d]
           /\ IF transport[c] THEN sent'[c] = what ELSE sent'[c] = <<>>
<1>1. CASE transport[c]
  <2>1. sent[c] \o what = what
    BY ConcatEmptySeq
  <2>2. sent' = [sent EXCEPT ![c] = what]
    BY <1>1, <2>1 DEF Write
  <2>3. QED
    BY <1>1, <2>2 DEF ApiTypeOK
<1>2. CASE ~transport[c]
  BY <1>2 DEF Write, ApiTypeOK
<1> QED
  BY <1>1, <1>2

(* What a call may write at once is an answer.                              *)
LEMMA AnswersAreTexts ==
    /\ \A a \in Answers : a \in Seq(Sendable) /\ IsAnswer(a)
    /\ <<"exception">> \in Answers /\ <<>> \in Answers
    /\ <<"established">> \in Seq(Sendable) /\ IsAnswer(<<"established">>)
    /\ <<"established">> # <<>> /\ <<"established">>[1] = "established"
  BY SMT DEF Answers, Sendable, IsAnswer

(* Who listens to a subject, and is still there, is sent its event.         *)
LEMMA TellEffect ==
    ASSUME ApiTypeOK, NEW s, Tell(s)
    PROVE  /\ sent' \in [Clients -> Seq(Sendable)]
           /\ \A d \in Clients : sent'[d] =
                 IF s \in handlers[d] /\ transport[d] THEN Append(sent[d], "event") ELSE sent[d]
<1>1. \A d \in Clients : sent[d] \in Seq(Sendable) /\ "event" \in Sendable
  BY DEF ApiTypeOK, Sendable
<1>2. \A d \in Clients : Append(sent[d], "event") \in Seq(Sendable)
  BY <1>1, AppendProperties
<1> QED
  BY <1>1, <1>2, SMT DEF Tell

(* Events follow.                                                           *)
LEMMA EventFollows ==
    ASSUME NEW s \in Seq(Sendable), s # <<>>, s[1] = "established"
    PROVE  /\ Append(s, "event") # <<>> /\ Append(s, "event")[1] = "established"
           /\ IsAnswer(s) => IsAnswer(Append(s, "event"))
<1> DEFINE t == Append(s, "event")
<1>1. /\ t # <<>> /\ Len(t) = Len(s) + 1 /\ t \in Seq(Sendable)
      /\ \A i \in 1..Len(s) : t[i] = s[i]
      /\ t[Len(s) + 1] = "event"
  BY AppendProperties, "event" \in Sendable DEF Sendable
<1>2. Len(s) \in Nat /\ Len(s) > 0
  BY SMT
<1>3. t[1] = "established"
  BY <1>1, <1>2, SMT
<1>4. ASSUME IsAnswer(s) PROVE IsAnswer(t)
  <2>1. DOMAIN t = 1..(Len(s) + 1) /\ DOMAIN s = 1..Len(s)
    BY <1>1, SMT
  <2>2. \A i \in 1..Len(s) : (s[i] = "event") = (i > 1)
    BY <1>4, <2>1 DEF IsAnswer
  <2> HIDE DEF t
  <2>3. \A i \in 1..(Len(s) + 1) : (t[i] = "event") = (i > 1)
    BY <1>1, <1>2, <2>2, SMT
  <2>4. QED
    BY <1>1, <1>3, <2>1, <2>3 DEF IsAnswer
<1> QED
  BY <1>1, <1>3, <1>4

(* Every variable keeps its type.                                            *)
LEMMA ApiTypeStep == ApiInv /\ [ApiNext]_apiVars => ApiTypeOK'
<1> SUFFICES ASSUME ApiTypeOK, AnsweredOnce, ReplyInv, SubscriberInv, [ApiNext]_apiVars
             PROVE ApiTypeOK'
  BY DEF ApiInv
<1> USE ApiAssumption DEF ApiAssumption
<1>1. ASSUME NEW c \in Clients, eof_received(c)
     PROVE  ApiTypeOK'
  <2>1. transport' \in [Clients -> BOOLEAN]
    BY <1>1, Zenon DEF eof_received, ApiTypeOK
  <2>2. To(c, "scheduled") \/ To(c, "done")
    BY <1>1, Zenon DEF eof_received
  <2>3. state' \in [Clients -> Open \cup {"done"}]
    BY <2>2 DEF To, ApiTypeOK, Open
  <2>4. QED
    BY <1>1, <2>1, <2>3 DEF eof_received, ApiTypeOK
<1>2. ASSUME NEW c \in Clients, execute(c)
     PROVE  ApiTypeOK'
  <2>1. CASE Executable(request[c])
    <3>1. To(c, "created") /\ UNCHANGED <<request, transport, sent, handlers, names, early>>
      BY <1>2, <2>1 DEF execute
    <3>2. QED
      BY <3>1 DEF To, ApiTypeOK, Open
  <2>2. CASE ~Executable(request[c])
    <3>1. Write(c, <<"exception">>) /\ To(c, "done") /\ sent[c] = <<>> /\ state[c] = "scheduled"
          /\ UNCHANGED <<request, transport, handlers, names, early>>
      BY <1>2, <2>2 DEF execute, ReplyInv
    <3>2. QED
      BY <3>1, WriteEffect, AnswersAreTexts, SMT DEF To, ApiTypeOK, Open, CallRecords, Dom0
  <2>3. QED
    BY <2>1, <2>2
<1>3. ASSUME NEW c \in Clients, MethodBegins(c)
     PROVE  ApiTypeOK'
  BY <1>3, SMT
    DEF MethodBegins, To, ApiTypeOK, Open, CallRecords, Dom0
<1>4. ASSUME NEW c \in Clients, MethodEnds(c)
     PROVE  ApiTypeOK'
  <2> PICK a \in Answers : Write(c, a)
    BY <1>4 DEF MethodEnds
  <2>1. To(c, "done") /\ sent[c] = <<>> /\ state[c] = "running"
        /\ UNCHANGED <<request, transport, handlers, names, early>>
    BY <1>4 DEF MethodEnds, ReplyInv
  <2>2. QED
    BY <2>1, WriteEffect, AnswersAreTexts, SMT DEF To, ApiTypeOK, Open, CallRecords, Dom0
<1>5. ASSUME NEW c \in Clients, events(c)
     PROVE  ApiTypeOK'
  <2>1. sent[c] = <<>> /\ handlers[c] = {} /\ state[c] = "created"
        /\ UNCHANGED <<request, transport, names, early>>
    BY <1>5 DEF events, ReplyInv
  <2>2. CASE /\ To(c, "subscribed")
             /\ handlers' = [handlers EXCEPT ![c] = SubjectsOf(c)]
             /\ Write(c, <<"established">>)
    <3>1. SubjectsOf(c) \in SUBSET (Names \cup {Dom0})
      BY SMT DEF SubjectsOf, ApiTypeOK, CallRecords
    <3>2. sent' \in [Clients -> Seq(Sendable)]
      BY <2>1, <2>2, WriteEffect, AnswersAreTexts
    <3>3. handlers' \in [Clients -> SUBSET (Names \cup {Dom0})]
      BY <2>2, <3>1 DEF ApiTypeOK
    <3>4. state' \in [Clients -> Open \cup {"done"}]
      BY <2>2 DEF To, ApiTypeOK, Open
    <3>5. QED
      BY <2>1, <3>2, <3>3, <3>4 DEF ApiTypeOK
  <2>3. CASE To(c, "done") /\ Write(c, <<"exception">>) /\ UNCHANGED handlers
    BY <2>1, <2>3, WriteEffect, AnswersAreTexts, SMT DEF To, ApiTypeOK, Open, CallRecords, Dom0
  <2>4. QED
    BY <1>5, <2>2, <2>3 DEF events
<1>6. ASSUME NEW c \in Clients, connection_lost(c)
     PROVE  ApiTypeOK'
  BY <1>6, SMT
    DEF connection_lost, To, ApiTypeOK, Open, CallRecords, Dom0
<1>7. ASSUME NEW c \in Clients, Cancelled(c)
     PROVE  ApiTypeOK'
  BY <1>7, SMT
    DEF Cancelled, To, SubjectsOf, ApiTypeOK, Open, CallRecords, Dom0
<1>8. ASSUME NEW q \in Names, DomainAdd(q)
     PROVE  ApiTypeOK'
  <2>1. Tell(Dom0)
    BY <1>8 DEF DomainAdd
  <2>2. QED
    BY <1>8, <2>1, TellEffect, SMT DEF DomainAdd, ApiTypeOK, Open, CallRecords, Dom0
<1>9. ASSUME NEW q \in Names, DomainDelete(q)
     PROVE  ApiTypeOK'
  <2>1. Tell(Dom0)
    BY <1>9 DEF DomainDelete
  <2>2. QED
    BY <1>9, <2>1, TellEffect, SMT DEF DomainDelete, ApiTypeOK, Open, CallRecords, Dom0
<1>10. ASSUME NEW s \in Names \cup {Dom0}, fire_event(s)
     PROVE  ApiTypeOK'
  <2>1. Tell(s)
    BY <1>10 DEF fire_event
  <2>2. QED
    BY <1>10, <2>1, TellEffect, SMT DEF fire_event, ApiTypeOK, Open, CallRecords, Dom0
<1>11. CASE UNCHANGED apiVars
  BY <1>11, SMT
    DEF apiVars, ApiTypeOK, Open, CallRecords, Dom0
<1>12. QED
  BY <1>1, <1>2, <1>3, <1>4, <1>5, <1>6, <1>7, <1>8, <1>9, <1>10, <1>11
    DEF ApiNext

(* An answer is written whole, or not at all, and nobody else's changes.    *)
LEMMA AnswerIsWritten ==
    ASSUME ApiTypeOK, AnsweredOnce, NEW c \in Clients, NEW what \in Seq(Sendable),
           IsAnswer(what), Write(c, what), sent[c] = <<>>
    PROVE  AnsweredOnce'
<1>1. /\ \A d \in Clients \ {c} : sent'[d] = sent[d]
      /\ sent'[c] = what \/ sent'[c] = <<>>
  BY WriteEffect
<1>2. IsAnswer(sent'[c])
  BY <1>1, AnswersAreTexts
<1>3. \A d \in Clients : IsAnswer(sent'[d])
  BY <1>1, <1>2 DEF AnsweredOnce
<1> QED
  BY <1>3 DEF AnsweredOnce

(* Every step keeps answers proper.                                          *)
LEMMA AnswerStep == ApiInv /\ [ApiNext]_apiVars => AnsweredOnce'
<1> SUFFICES ASSUME ApiTypeOK, AnsweredOnce, ReplyInv, SubscriberInv, [ApiNext]_apiVars
             PROVE AnsweredOnce'
  BY DEF ApiInv
<1> USE ApiAssumption DEF ApiAssumption
<1>1. ASSUME NEW c \in Clients, eof_received(c)
     PROVE  AnsweredOnce'
  BY <1>1, SMT
    DEF eof_received, To, AnsweredOnce
<1>2. ASSUME NEW c \in Clients, execute(c)
     PROVE  AnsweredOnce'
  <2>1. CASE Executable(request[c])
    BY <1>2, <2>1 DEF execute, AnsweredOnce
  <2>2. CASE ~Executable(request[c])
    <3>1. Write(c, <<"exception">>) /\ To(c, "done") /\ sent[c] = <<>> /\ state[c] = "scheduled"
          /\ UNCHANGED <<request, transport, handlers, names, early>>
      BY <1>2, <2>2 DEF execute, ReplyInv
    <3>2. QED
      BY <3>1, AnswerIsWritten, AnswersAreTexts
  <2>3. QED
    BY <2>1, <2>2
<1>3. ASSUME NEW c \in Clients, MethodBegins(c)
     PROVE  AnsweredOnce'
  BY <1>3, SMT
    DEF MethodBegins, To, AnsweredOnce
<1>4. ASSUME NEW c \in Clients, MethodEnds(c)
     PROVE  AnsweredOnce'
  <2> PICK a \in Answers : Write(c, a)
    BY <1>4 DEF MethodEnds
  <2>1. To(c, "done") /\ sent[c] = <<>> /\ state[c] = "running"
        /\ UNCHANGED <<request, transport, handlers, names, early>>
    BY <1>4 DEF MethodEnds, ReplyInv
  <2>2. QED
    BY <2>1, AnswerIsWritten, AnswersAreTexts
<1>5. ASSUME NEW c \in Clients, events(c)
     PROVE  AnsweredOnce'
  <2>1. sent[c] = <<>> /\ handlers[c] = {} /\ state[c] = "created"
        /\ UNCHANGED <<request, transport, names, early>>
    BY <1>5 DEF events, ReplyInv
  <2>2. CASE /\ To(c, "subscribed")
             /\ handlers' = [handlers EXCEPT ![c] = SubjectsOf(c)]
             /\ Write(c, <<"established">>)
    BY <2>1, <2>2, AnswerIsWritten, AnswersAreTexts
  <2>3. CASE To(c, "done") /\ Write(c, <<"exception">>) /\ UNCHANGED handlers
    BY <2>1, <2>3, AnswerIsWritten, AnswersAreTexts
  <2>4. QED
    BY <1>5, <2>2, <2>3 DEF events
<1>6. ASSUME NEW c \in Clients, connection_lost(c)
     PROVE  AnsweredOnce'
  BY <1>6, SMT
    DEF connection_lost, To, AnsweredOnce
<1>7. ASSUME NEW c \in Clients, Cancelled(c)
     PROVE  AnsweredOnce'
  BY <1>7, SMT
    DEF Cancelled, To, SubjectsOf, AnsweredOnce
<1>8. ASSUME NEW q \in Names, DomainAdd(q)
     PROVE  AnsweredOnce'
  <2>1. Tell(Dom0)
    BY <1>8 DEF DomainAdd
  <2> SUFFICES ASSUME NEW d \in Clients PROVE IsAnswer(sent'[d])
    BY DEF AnsweredOnce
  <2>2. CASE Dom0 \in handlers[d] /\ transport[d]
    <3>1. sent[d] \in Seq(Sendable) /\ sent[d] # <<>> /\ sent[d][1] = "established"
      BY <2>2 DEF ApiTypeOK, ReplyInv
    <3>2. sent'[d] = Append(sent[d], "event") /\ IsAnswer(sent[d])
      BY <2>1, <2>2, TellEffect DEF AnsweredOnce
    <3>3. QED
      BY <3>1, <3>2, EventFollows
  <2>3. CASE ~(Dom0 \in handlers[d] /\ transport[d])
    BY <2>1, <2>3, TellEffect DEF AnsweredOnce
  <2>4. QED
    BY <2>2, <2>3
<1>9. ASSUME NEW q \in Names, DomainDelete(q)
     PROVE  AnsweredOnce'
  <2>1. Tell(Dom0)
    BY <1>9 DEF DomainDelete
  <2> SUFFICES ASSUME NEW d \in Clients PROVE IsAnswer(sent'[d])
    BY DEF AnsweredOnce
  <2>2. CASE Dom0 \in handlers[d] /\ transport[d]
    <3>1. sent[d] \in Seq(Sendable) /\ sent[d] # <<>> /\ sent[d][1] = "established"
      BY <2>2 DEF ApiTypeOK, ReplyInv
    <3>2. sent'[d] = Append(sent[d], "event") /\ IsAnswer(sent[d])
      BY <2>1, <2>2, TellEffect DEF AnsweredOnce
    <3>3. QED
      BY <3>1, <3>2, EventFollows
  <2>3. CASE ~(Dom0 \in handlers[d] /\ transport[d])
    BY <2>1, <2>3, TellEffect DEF AnsweredOnce
  <2>4. QED
    BY <2>2, <2>3
<1>10. ASSUME NEW s \in Names \cup {Dom0}, fire_event(s)
     PROVE  AnsweredOnce'
  <2>1. Tell(s)
    BY <1>10 DEF fire_event
  <2> SUFFICES ASSUME NEW d \in Clients PROVE IsAnswer(sent'[d])
    BY DEF AnsweredOnce
  <2>2. CASE s \in handlers[d] /\ transport[d]
    <3>1. sent[d] \in Seq(Sendable) /\ sent[d] # <<>> /\ sent[d][1] = "established"
      BY <2>2 DEF ApiTypeOK, ReplyInv
    <3>2. sent'[d] = Append(sent[d], "event") /\ IsAnswer(sent[d])
      BY <2>1, <2>2, TellEffect DEF AnsweredOnce
    <3>3. QED
      BY <3>1, <3>2, EventFollows
  <2>3. CASE ~(s \in handlers[d] /\ transport[d])
    BY <2>1, <2>3, TellEffect DEF AnsweredOnce
  <2>4. QED
    BY <2>2, <2>3
<1>11. CASE UNCHANGED apiVars
  BY <1>11, SMT
    DEF apiVars, AnsweredOnce
<1>12. QED
  BY <1>1, <1>2, <1>3, <1>4, <1>5, <1>6, <1>7, <1>8, <1>9, <1>10, <1>11
    DEF ApiNext

(* Whoever has handlers has been told so.                                    *)
LEMMA ReplyStep == ApiInv /\ [ApiNext]_apiVars => ReplyInv'
<1> SUFFICES ASSUME ApiTypeOK, AnsweredOnce, ReplyInv, SubscriberInv, [ApiNext]_apiVars
             PROVE ReplyInv'
  BY DEF ApiInv
<1> USE ApiAssumption DEF ApiAssumption
<1>1. ASSUME NEW c \in Clients, eof_received(c)
     PROVE  ReplyInv'
  BY <1>1, SMT
    DEF eof_received, To, ApiTypeOK, Open, ReplyInv
<1>2. ASSUME NEW c \in Clients, execute(c)
     PROVE  ReplyInv'
  BY <1>2, SMT
    DEF execute, To, Write, Executable, ApiTypeOK, Open, ReplyInv
<1>3. ASSUME NEW c \in Clients, MethodBegins(c)
     PROVE  ReplyInv'
  BY <1>3, SMT
    DEF MethodBegins, To, ApiTypeOK, Open, ReplyInv
<1>4. ASSUME NEW c \in Clients, MethodEnds(c)
     PROVE  ReplyInv'
  BY <1>4, SMT
    DEF MethodEnds, To, Write, Answers, ApiTypeOK, Open, ReplyInv
<1>5. ASSUME NEW c \in Clients, events(c)
     PROVE  ReplyInv'
  BY <1>5, SMT
    DEF events, To, Write, SubjectsOf, ApiTypeOK, Open, ReplyInv
<1>6. ASSUME NEW c \in Clients, connection_lost(c)
     PROVE  ReplyInv'
  BY <1>6, SMT
    DEF connection_lost, To, ApiTypeOK, Open, ReplyInv
<1>7. ASSUME NEW c \in Clients, Cancelled(c)
     PROVE  ReplyInv'
  BY <1>7, SMT
    DEF Cancelled, To, SubjectsOf, ApiTypeOK, Open, ReplyInv
<1>8. ASSUME NEW q \in Names, DomainAdd(q)
     PROVE  ReplyInv'
  <2>1. Tell(Dom0) /\ UNCHANGED <<state, transport>>
    BY <1>8 DEF DomainAdd
  <2> SUFFICES ASSUME NEW d \in Clients PROVE
            /\ state[d] \in {"connected", "scheduled", "created", "running"} =>
                sent'[d] = <<>> /\ handlers'[d] = {}
            /\ handlers'[d] # {} /\ transport[d] =>
                sent'[d] # <<>> /\ sent'[d][1] = "established"
    BY <2>1 DEF ReplyInv
  <2>2. handlers[d] = {} => handlers'[d] = {}
    BY <1>8 DEF DomainAdd
  <2>3. CASE Dom0 \in handlers[d] /\ transport[d]
    <3>1. sent[d] \in Seq(Sendable) /\ sent[d] # <<>> /\ sent[d][1] = "established"
      BY <2>3 DEF ApiTypeOK, ReplyInv
    <3>2. sent'[d] = Append(sent[d], "event")
      BY <2>1, <2>3, TellEffect
    <3>3. QED
      BY <2>3, <3>1, <3>2, EventFollows DEF ReplyInv
  <2>4. CASE ~(Dom0 \in handlers[d] /\ transport[d])
    BY <2>1, <2>2, <2>4, TellEffect DEF ReplyInv
  <2>5. QED
    BY <2>3, <2>4
<1>9. ASSUME NEW q \in Names, DomainDelete(q)
     PROVE  ReplyInv'
  <2>1. Tell(Dom0) /\ UNCHANGED <<state, transport>>
    BY <1>9 DEF DomainDelete
  <2> SUFFICES ASSUME NEW d \in Clients PROVE
            /\ state[d] \in {"connected", "scheduled", "created", "running"} =>
                sent'[d] = <<>> /\ handlers'[d] = {}
            /\ handlers'[d] # {} /\ transport[d] =>
                sent'[d] # <<>> /\ sent'[d][1] = "established"
    BY <2>1 DEF ReplyInv
  <2>2. handlers[d] = {} => handlers'[d] = {}
    BY <1>9 DEF DomainDelete
  <2>3. CASE Dom0 \in handlers[d] /\ transport[d]
    <3>1. sent[d] \in Seq(Sendable) /\ sent[d] # <<>> /\ sent[d][1] = "established"
      BY <2>3 DEF ApiTypeOK, ReplyInv
    <3>2. sent'[d] = Append(sent[d], "event")
      BY <2>1, <2>3, TellEffect
    <3>3. QED
      BY <2>3, <3>1, <3>2, EventFollows DEF ReplyInv
  <2>4. CASE ~(Dom0 \in handlers[d] /\ transport[d])
    BY <2>1, <2>2, <2>4, TellEffect DEF ReplyInv
  <2>5. QED
    BY <2>3, <2>4
<1>10. ASSUME NEW s \in Names \cup {Dom0}, fire_event(s)
     PROVE  ReplyInv'
  <2>1. Tell(s) /\ UNCHANGED <<state, transport>>
    BY <1>10 DEF fire_event
  <2> SUFFICES ASSUME NEW d \in Clients PROVE
            /\ state[d] \in {"connected", "scheduled", "created", "running"} =>
                sent'[d] = <<>> /\ handlers'[d] = {}
            /\ handlers'[d] # {} /\ transport[d] =>
                sent'[d] # <<>> /\ sent'[d][1] = "established"
    BY <2>1 DEF ReplyInv
  <2>2. handlers[d] = {} => handlers'[d] = {}
    BY <1>10 DEF fire_event
  <2>3. CASE s \in handlers[d] /\ transport[d]
    <3>1. sent[d] \in Seq(Sendable) /\ sent[d] # <<>> /\ sent[d][1] = "established"
      BY <2>3 DEF ApiTypeOK, ReplyInv
    <3>2. sent'[d] = Append(sent[d], "event")
      BY <2>1, <2>3, TellEffect
    <3>3. QED
      BY <2>3, <3>1, <3>2, EventFollows DEF ReplyInv
  <2>4. CASE ~(s \in handlers[d] /\ transport[d])
    BY <2>1, <2>2, <2>4, TellEffect DEF ReplyInv
  <2>5. QED
    BY <2>3, <2>4
<1>11. CASE UNCHANGED apiVars
  BY <1>11, SMT
    DEF apiVars, ApiTypeOK, Open, ReplyInv
<1>12. QED
  BY <1>1, <1>2, <1>3, <1>4, <1>5, <1>6, <1>7, <1>8, <1>9, <1>10, <1>11
    DEF ApiNext

(* Every subscriber keeps the handlers it asked for.                         *)
LEMMA SubscriberStep == ApiInv /\ [ApiNext]_apiVars => SubscriberInv'
<1> SUFFICES ASSUME ApiTypeOK, AnsweredOnce, ReplyInv, SubscriberInv, [ApiNext]_apiVars
             PROVE SubscriberInv'
  BY DEF ApiInv
<1> USE ApiAssumption DEF ApiAssumption
<1>1. ASSUME NEW c \in Clients, eof_received(c)
     PROVE  SubscriberInv'
  BY <1>1, SMT
    DEF eof_received, To, ApiTypeOK, Open, CallRecords, Dom0, SubscriberInv, SubjectsOf
<1>2. ASSUME NEW c \in Clients, execute(c)
     PROVE  SubscriberInv'
  BY <1>2, SMT
    DEF execute, To, Write, Executable, ApiTypeOK, Open, CallRecords, Dom0,
        SubscriberInv, SubjectsOf
<1>3. ASSUME NEW c \in Clients, MethodBegins(c)
     PROVE  SubscriberInv'
  BY <1>3, SMT
    DEF MethodBegins, To, ApiTypeOK, Open, CallRecords, Dom0, SubscriberInv, SubjectsOf
<1>4. ASSUME NEW c \in Clients, MethodEnds(c)
     PROVE  SubscriberInv'
  BY <1>4, SMT
    DEF MethodEnds, To, Write, Answers, ApiTypeOK, Open, CallRecords, Dom0,
        SubscriberInv, SubjectsOf
<1>5. ASSUME NEW c \in Clients, events(c)
     PROVE  SubscriberInv'
  <2>1. state[c] = "created" /\ UNCHANGED <<request, transport, names, early>>
    BY <1>5 DEF events
  <2>2. CASE To(c, "subscribed") /\ handlers' = [handlers EXCEPT ![c] = SubjectsOf(c)]
    <3> SUFFICES ASSUME NEW d \in Clients \ early PROVE
              /\ state'[d] \in {"subscribed", "cancelled"} => handlers'[d] = SubjectsOf(d)
              /\ state'[d] \notin {"subscribed", "cancelled"} => handlers'[d] = {}
              /\ state'[d] \in {"scheduled", "created", "subscribed"} => transport[d]
      BY <2>1 DEF SubscriberInv, SubjectsOf
    <3>1. CASE d = c
      <4>1. state'[c] = "subscribed" /\ handlers'[c] = SubjectsOf(c)
        BY <2>2 DEF To, ApiTypeOK
      <4>2. transport[c]
        BY <2>1, <3>1 DEF SubscriberInv
      <4>3. QED
        BY <3>1, <4>1, <4>2
    <3>2. CASE d # c
      <4>1. state'[d] = state[d] /\ handlers'[d] = handlers[d]
        BY <2>2, <3>2 DEF To, ApiTypeOK
      <4>2. QED
        BY <4>1 DEF SubscriberInv
    <3>3. QED
      BY <3>1, <3>2
  <2>3. CASE To(c, "done") /\ UNCHANGED handlers
    BY <2>1, <2>3, SMT DEF To, ApiTypeOK, Open, SubscriberInv, SubjectsOf
  <2>4. QED
    BY <1>5, <2>2, <2>3 DEF events
<1>6. ASSUME NEW c \in Clients, connection_lost(c)
     PROVE  SubscriberInv'
  BY <1>6, SMT
    DEF connection_lost, To, ApiTypeOK, Open, CallRecords, Dom0, SubscriberInv,
        SubjectsOf
<1>7. ASSUME NEW c \in Clients, Cancelled(c)
     PROVE  SubscriberInv'
  BY <1>7, SMT
    DEF Cancelled, To, SubjectsOf, ApiTypeOK, Open, CallRecords, Dom0, SubscriberInv
<1>8. ASSUME NEW q \in Names, DomainAdd(q)
     PROVE  SubscriberInv'
  <2>1. /\ UNCHANGED <<request, state, transport, early>>
        /\ names' = names \cup {q}
        /\ handlers' = [d \in Clients |->
                IF Dom0 \in handlers[d] THEN handlers[d] \cup {q} ELSE handlers[d]]
    BY <1>8 DEF DomainAdd
  <2> SUFFICES ASSUME NEW d \in Clients \ early PROVE
            /\ state[d] \in {"subscribed", "cancelled"} => handlers'[d] = SubjectsOf(d)'
            /\ state[d] \notin {"subscribed", "cancelled"} => handlers'[d] = {}
            /\ state[d] \in {"scheduled", "created", "subscribed"} => transport[d]
    BY <2>1 DEF SubscriberInv
  <2>2. CASE state[d] \in {"subscribed", "cancelled"}
    <3>1. handlers[d] = SubjectsOf(d)
      BY <2>2 DEF SubscriberInv
    <3>2. CASE request[d].dest = Dom0
      BY <2>1, <2>2, <3>1, <3>2 DEF SubscriberInv, SubjectsOf, Dom0
    <3>3. CASE request[d].dest # Dom0
      BY <2>1, <2>2, <3>1, <3>3 DEF SubscriberInv, SubjectsOf
    <3>4. QED
      BY <3>2, <3>3
  <2>3. CASE state[d] \notin {"subscribed", "cancelled"}
    BY <2>1, <2>3 DEF SubscriberInv
  <2>4. QED
    BY <2>2, <2>3
<1>9. ASSUME NEW q \in Names, DomainDelete(q)
     PROVE  SubscriberInv'
  <2>1. /\ UNCHANGED <<request, state, transport, early>>
        /\ names' = names \ {q}
        /\ handlers' = [d \in Clients |->
                IF Dom0 \in handlers[d] THEN handlers[d] \ {q} ELSE handlers[d]]
    BY <1>9 DEF DomainDelete
  <2> SUFFICES ASSUME NEW d \in Clients \ early PROVE
            /\ state[d] \in {"subscribed", "cancelled"} => handlers'[d] = SubjectsOf(d)'
            /\ state[d] \notin {"subscribed", "cancelled"} => handlers'[d] = {}
            /\ state[d] \in {"scheduled", "created", "subscribed"} => transport[d]
    BY <2>1 DEF SubscriberInv
  <2>2. CASE state[d] \in {"subscribed", "cancelled"}
    <3>1. handlers[d] = SubjectsOf(d)
      BY <2>2 DEF SubscriberInv
    <3>2. CASE request[d].dest = Dom0
      BY <2>1, <2>2, <3>1, <3>2 DEF SubscriberInv, SubjectsOf, Dom0
    <3>3. CASE request[d].dest # Dom0
      BY <2>1, <2>2, <3>1, <3>3 DEF SubscriberInv, SubjectsOf
    <3>4. QED
      BY <3>2, <3>3
  <2>3. CASE state[d] \notin {"subscribed", "cancelled"}
    BY <2>1, <2>3 DEF SubscriberInv
  <2>4. QED
    BY <2>2, <2>3
<1>10. ASSUME NEW s \in Names \cup {Dom0}, fire_event(s)
     PROVE  SubscriberInv'
  BY <1>10, SMT
    DEF fire_event, Tell, ApiTypeOK, Open, CallRecords, Dom0, SubscriberInv, SubjectsOf
<1>11. CASE UNCHANGED apiVars
  BY <1>11, SMT
    DEF apiVars, ApiTypeOK, Open, CallRecords, Dom0, SubscriberInv, SubjectsOf
<1>12. QED
  BY <1>1, <1>2, <1>3, <1>4, <1>5, <1>6, <1>7, <1>8, <1>9, <1>10, <1>11
    DEF ApiNext

(* ApiInv holds from the beginning.                                         *)
THEOREM ApiInvariant == ApiSpec => []ApiInv
<1> USE ApiAssumption DEF ApiAssumption
<1>1. ApiInit => ApiInv
  <2> SUFFICES ASSUME ApiInit PROVE ApiTypeOK /\ AnsweredOnce /\ ReplyInv /\ SubscriberInv
    BY DEF ApiInv
  <2>1. <<>> \in Seq(Sendable) /\ IsAnswer(<<>>)
    BY AnswersAreTexts
  <2>2. ApiTypeOK
    BY <2>1, SMT DEF ApiInit, ApiTypeOK, Open
  <2>3. AnsweredOnce
    BY <2>1 DEF ApiInit, AnsweredOnce
  <2>4. ReplyInv /\ SubscriberInv
    BY SMT DEF ApiInit, ReplyInv, SubscriberInv
  <2>5. QED
    BY <2>2, <2>3, <2>4
<1>2. ApiInv /\ [ApiNext]_apiVars => ApiInv'
  BY ApiTypeStep, AnswerStep, ReplyStep, SubscriberStep DEF ApiInv
<1> QED
  BY <1>1, <1>2, PTL DEF ApiSpec

(* Whoever calls, leaves or subscribes, and whatever qubes come and go,     *)
(* every client gets one answer, or its events and nobody else's.           *)
THEOREM EveryClientIsServed == ApiSpec => []ClientsServed
<1>1. ApiInv => ClientsServed
  BY DEF ApiInv, SubscriberInv, ClientsServed, SubscriptionFollows
<1> QED
  BY <1>1, ApiInvariant, PTL

----------------------------------------------------------------------------
(* QubeFirewall.                                                           *)

(* A set of natural numbers has a smallest one.                             *)
LEMMA LeastNumber ==
  ASSUME NEW S \in SUBSET Nat, S # {}
  PROVE  \E m \in S : \A n \in S : m <= n
<1>1. PICK R : R = OpToRel(<, Nat)
  BY Zenon
<1>2. IsWellFoundedOn(R, Nat)
  BY <1>1, NatLessThanWellFounded, Zenon
<1>3. R = {ss \in Nat \X Nat : ss[1] < ss[2]}
  BY <1>1, Zenon DEF OpToRel
<1>4. PICK m \in S : \A n \in S : ~ (<<n, m>> \in R)
  BY <1>2, WFMin, Zenon
<1>5. ASSUME NEW n \in S
      PROVE  m <= n
  <2>1. <<n, m>> \in Nat \X Nat /\ <<n, m>>[1] = n /\ <<n, m>>[2] = m
    BY Zenon
  <2>2. ~ (n < m)
    BY <1>3, <1>4, <2>1
  <2> QED
    BY <2>2, SMT
<1> QED
  BY <1>5

(* The recursive function of Filtered().                                    *)
Filters(s, S, f) ==
  f = [i \in 0..Len(s) |->
         IF i = 0 THEN <<>> ELSE IF s[i] \in S THEN Append(f[i - 1], s[i]) ELSE f[i - 1]]

(* Two such functions agree where their sequences do.                       *)
LEMMA FiltersSame ==
  ASSUME NEW X, NEW s \in Seq(X), NEW t \in Seq(X), NEW S, NEW f, NEW g,
         Filters(s, S, f), Filters(t, S, g), Len(s) <= Len(t),
         \A i \in 1..Len(s) : s[i] = t[i]
  PROVE  f[Len(s)] = g[Len(s)]
<1> DEFINE B == {i \in 0..Len(s) : f[i] # g[i]}
<1>1. SUFFICES B = {}
  BY SMT
<1>2. SUFFICES ASSUME B # {}
               PROVE  FALSE
  OBVIOUS
<1>3. PICK i \in B : \A j \in B : i <= j
  <2>1. B \in SUBSET Nat
    BY SMT
  <2> QED
    BY <1>2, <2>1, LeastNumber
<1>4. i \in 0..Len(s) /\ i \in 0..Len(t) /\ f[i] # g[i]
  BY <1>3, SMT
<1>5. f[i] = IF i = 0 THEN <<>> ELSE IF s[i] \in S THEN Append(f[i - 1], s[i]) ELSE f[i - 1]
  BY <1>4 DEF Filters
<1>6. g[i] = IF i = 0 THEN <<>> ELSE IF t[i] \in S THEN Append(g[i - 1], t[i]) ELSE g[i - 1]
  BY <1>4 DEF Filters
<1>7. i # 0
  BY <1>4, <1>5, <1>6
<1>8. s[i] = t[i] /\ f[i - 1] = g[i - 1]
  BY <1>3, <1>4, <1>7, SMT
<1> QED
  BY <1>4, <1>5, <1>6, <1>7, <1>8

(* A function that fills the equation of Filtered() is the one it chooses.  *)
LEMMA FiltersIs ==
  ASSUME NEW X, NEW s \in Seq(X), NEW S, NEW f, Filters(s, S, f)
  PROVE  Filtered(s, S) = f[Len(s)]
<1> DEFINE g == CHOOSE g : Filters(s, S, g)
<1>1. Filters(s, S, g)
  OBVIOUS
<1>2. Filtered(s, S) = g[Len(s)]
  BY DEF Filtered, Filters
<1>3. f[Len(s)] = g[Len(s)]
  BY <1>1, FiltersSame, SMT
<1> QED
  BY <1>2, <1>3

(* It goes on when the sequence gets one more element.                      *)
LEMMA FiltersAppend ==
  ASSUME NEW X, NEW s \in Seq(X), NEW x \in X, NEW S, NEW f, Filters(s, S, f)
  PROVE  LET h == IF x \in S THEN Append(f[Len(s)], x) ELSE f[Len(s)]
         IN  Filters(Append(s, x), S, [i \in 0..(Len(s) + 1) |-> IF i <= Len(s) THEN f[i] ELSE h])
<1> DEFINE h == IF x \in S THEN Append(f[Len(s)], x) ELSE f[Len(s)]
<1>1. PICK t : t = Append(s, x)
  OBVIOUS
<1>2. /\ Len(t) = Len(s) + 1 /\ t[Len(s) + 1] = x /\ Len(s) \in Nat
      /\ \A i \in 1..Len(s) : t[i] = s[i]
  BY <1>1, AppendProperties
<1>3. PICK g : g = [i \in 0..(Len(s) + 1) |-> IF i <= Len(s) THEN f[i] ELSE h]
  OBVIOUS
<1> DEFINE G(i) == IF i = 0 THEN <<>> ELSE IF t[i] \in S THEN Append(g[i - 1], t[i]) ELSE g[i - 1]
<1>4. ASSUME NEW i \in 0..(Len(s) + 1)
      PROVE  g[i] = G(i)
  <2>1. CASE i <= Len(s)
    <3>1. g[i] = f[i] /\ i \in 0..Len(s) /\ (i # 0 => g[i - 1] = f[i - 1] /\ t[i] = s[i])
      BY <1>2, <1>3, <2>1, SMT
    <3>2. f[i] = IF i = 0 THEN <<>> ELSE IF s[i] \in S THEN Append(f[i - 1], s[i]) ELSE f[i - 1]
      BY <3>1 DEF Filters
    <3> QED
      BY <3>1, <3>2
  <2>2. CASE ~ (i <= Len(s))
    <3>1. i = Len(s) + 1 /\ i # 0 /\ i - 1 = Len(s) /\ t[i] = x
      BY <1>2, <2>2, SMT
    <3>2. g[i] = h /\ g[i - 1] = f[Len(s)]
      BY <1>2, <1>3, <2>2, <3>1, SMT
    <3> QED
      BY <3>1, <3>2
  <2> QED
    BY <2>1, <2>2
<1>5. g = [i \in 0..(Len(s) + 1) |-> g[i]]
  BY <1>3
<1>6. g = [i \in 0..Len(t) |-> G(i)]
  BY <1>2, <1>4, <1>5
<1> HIDE DEF h
<1>7. Filters(t, S, g)
  BY <1>6 DEF Filters
<1> QED
  BY <1>1, <1>3, <1>7 DEF h

(* There is one for every sequence: otherwise there is a shortest without.  *)
LEMMA FiltersExist ==
  ASSUME NEW X, NEW s \in Seq(X), NEW S
  PROVE  \E f : Filters(s, S, f)
<1> DEFINE B == {n \in Nat : \E t \in Seq(X) : Len(t) = n /\ ~ \E f : Filters(t, S, f)}
<1>1. SUFFICES ASSUME B # {}
               PROVE  FALSE
  BY SMT
<1>2. PICK n \in B : \A k \in B : n <= k
  BY <1>1, LeastNumber
<1>3. PICK t \in Seq(X) : Len(t) = n /\ ~ \E f : Filters(t, S, f)
  BY <1>2
<1>4. CASE t = <<>>
  <2>1. Filters(t, S, [i \in 0..Len(t) |-> <<>>])
    BY <1>4, SMT DEF Filters
  <2> QED
    BY <1>3, <2>1
<1>5. CASE t # <<>>
  <2>1. PICK u \in Seq(X), x \in X : t = Append(u, x)
    BY <1>5, SequenceEmptyOrAppend
  <2>2. Len(u) \in Nat /\ Len(u) < n
    BY <1>3, <2>1, AppendProperties, SMT
  <2>3. PICK f : Filters(u, S, f)
    BY <1>2, <2>2, SMT
  <2>4. \E g : Filters(t, S, g)
    BY <2>1, <2>3, FiltersAppend
  <2> QED
    BY <1>3, <2>4
<1> QED
  BY <1>4, <1>5

(* What Filtered() does with no element and with one more.                  *)
LEMMA FilteredNone ==
  ASSUME NEW S
  PROVE  Filtered(<<>>, S) = <<>>
<1>1. <<>> \in Seq({}) /\ Len(<<>>) = 0
  BY SMT
<1>2. PICK f : Filters(<<>>, S, f)
  BY <1>1, FiltersExist
<1>3. f[0] = <<>>
  BY <1>1, <1>2 DEF Filters
<1> QED
  BY <1>1, <1>2, <1>3, FiltersIs

(* What Filtered() does with one more element.                              *)
LEMMA FilteredStep ==
  ASSUME NEW X, NEW s \in Seq(X), NEW x \in X, NEW S
  PROVE  Filtered(Append(s, x), S) =
           IF x \in S THEN Append(Filtered(s, S), x) ELSE Filtered(s, S)
<1>1. PICK f : Filters(s, S, f)
  BY FiltersExist
<1>2. Filtered(s, S) = f[Len(s)]
  BY <1>1, FiltersIs
<1>3. PICK h : h = IF x \in S THEN Append(f[Len(s)], x) ELSE f[Len(s)]
  OBVIOUS
<1>4. PICK g : g = [i \in 0..(Len(s) + 1) |-> IF i <= Len(s) THEN f[i] ELSE h]
  OBVIOUS
<1>5. Filters(Append(s, x), S, g)
  BY <1>1, <1>3, <1>4, FiltersAppend
<1>6. Append(s, x) \in Seq(X) /\ Len(Append(s, x)) = Len(s) + 1 /\ Len(s) \in Nat
  BY AppendProperties
<1>7. Filtered(Append(s, x), S) = g[Len(s) + 1]
  BY <1>5, <1>6, FiltersIs
<1>8. g[Len(s) + 1] = h
  BY <1>4, <1>6, SMT
<1> QED
  BY <1>2, <1>3, <1>7, <1>8

(* What Filtered() returns: elements of s that are in S, all of them.       *)
FilterIsRight(X, s, S) ==
  /\ Filtered(s, S) \in Seq(X)
  /\ \A x : x \in ToSet(Filtered(s, S)) <=> x \in ToSet(s) /\ x \in S

(* The elements of a sequence with one more.                                *)
LEMMA ToSetAppend ==
  ASSUME NEW X, NEW s \in Seq(X), NEW x \in X
  PROVE  \A y : y \in ToSet(Append(s, x)) <=> y \in ToSet(s) \/ y = x
<1>1. PICK t : t = Append(s, x)
  OBVIOUS
<1>2. /\ DOMAIN s = 1..Len(s) /\ DOMAIN t = 1..(Len(s) + 1) /\ Len(s) \in Nat
      /\ \A i \in 1..Len(s) : t[i] = s[i]
      /\ t[Len(s) + 1] = x
  BY <1>1, AppendProperties, LenProperties
<1>3. ASSUME NEW y, y \in ToSet(s)
      PROVE  y \in ToSet(t)
  <2>1. PICK i \in 1..Len(s) : y = s[i]
    BY <1>2, <1>3 DEF ToSet
  <2>2. i \in DOMAIN t /\ t[i] = y
    BY <1>2, <2>1, SMT
  <2> QED
    BY <2>2 DEF ToSet
<1>4. x \in ToSet(t)
  <2>1. Len(s) + 1 \in DOMAIN t
    BY <1>2, SMT
  <2> QED
    BY <1>2, <2>1 DEF ToSet
<1>5. ASSUME NEW y, y \in ToSet(t), y # x
      PROVE  y \in ToSet(s)
  <2>1. PICK i \in 1..(Len(s) + 1) : y = t[i]
    BY <1>2, <1>5 DEF ToSet
  <2>2. i \in DOMAIN s /\ y = s[i]
    BY <1>2, <1>5, <2>1, SMT
  <2> QED
    BY <2>2 DEF ToSet
<1> QED
  BY <1>1, <1>3, <1>4, <1>5

(* Filtered() returns what it should, for every sequence.                   *)
LEMMA FilterRight ==
  ASSUME NEW X, NEW s \in Seq(X), NEW S
  PROVE  FilterIsRight(X, s, S)
<1> DEFINE B == {n \in Nat : \E t \in Seq(X) : Len(t) = n /\ ~ FilterIsRight(X, t, S)}
<1>1. SUFFICES ASSUME B # {}
               PROVE  FALSE
  BY SMT
<1>2. PICK n \in B : \A k \in B : n <= k
  BY <1>1, LeastNumber
<1>3. PICK t \in Seq(X) : Len(t) = n /\ ~ FilterIsRight(X, t, S)
  BY <1>2
<1>4. CASE t = <<>>
  <2>1. Filtered(t, S) = <<>>
    BY <1>4, FilteredNone
  <2>2. \A x : x \notin ToSet(<<>>)
    BY SMT DEF ToSet
  <2> QED
    BY <1>3, <1>4, <2>1, <2>2 DEF FilterIsRight
<1>5. CASE t # <<>>
  <2>1. PICK u \in Seq(X), x \in X : t = Append(u, x)
    BY <1>5, SequenceEmptyOrAppend
  <2>2. Len(u) \in Nat /\ Len(u) < n
    BY <1>3, <2>1, AppendProperties, SMT
  <2>3. FilterIsRight(X, u, S)
    BY <1>2, <2>2, SMT
  <2>4. PICK v : v = Filtered(u, S)
    OBVIOUS
  <2>5. v \in Seq(X) /\ \A y : y \in ToSet(v) <=> y \in ToSet(u) /\ y \in S
    BY <2>3, <2>4 DEF FilterIsRight
  <2>6. Filtered(t, S) = IF x \in S THEN Append(v, x) ELSE v
    BY <2>1, <2>4, FilteredStep
  <2>7. Append(v, x) \in Seq(X)
    BY <2>5, AppendProperties
  <2>8. /\ \A y : y \in ToSet(t) <=> y \in ToSet(u) \/ y = x
        /\ \A y : y \in ToSet(Append(v, x)) <=> y \in ToSet(v) \/ y = x
    BY <2>1, <2>5, ToSetAppend
  <2>9. FilterIsRight(X, t, S)
    BY <2>5, <2>6, <2>7, <2>8 DEF FilterIsRight
  <2> QED
    BY <1>3, <2>9
<1> QED
  BY <1>4, <1>5

(* Only which elements of s are in S matters.                               *)
LEMMA FilterSame ==
  ASSUME NEW X, NEW s \in Seq(X), NEW S, NEW T, \A x \in ToSet(s) : x \in S <=> x \in T
  PROVE  Filtered(s, S) = Filtered(s, T)
<1> DEFINE Equal(t) == (\A x \in ToSet(t) : x \in S <=> x \in T) => Filtered(t, S) = Filtered(t, T)
<1> SUFFICES \A t \in Seq(X) : Equal(t)
  OBVIOUS
<1> HIDE DEF Equal
<1> DEFINE B == {n \in Nat : \E t \in Seq(X) : Len(t) = n /\ ~ Equal(t)}
<1>1. SUFFICES ASSUME B # {}
               PROVE  FALSE
  BY SMT
<1>2. PICK n \in B : \A k \in B : n <= k
  BY <1>1, LeastNumber
<1>3. PICK t \in Seq(X) : Len(t) = n /\ ~ Equal(t)
  BY <1>2
<1>4. CASE t = <<>>
  BY <1>3, <1>4, FilteredNone DEF Equal
<1>5. CASE t # <<>>
  <2>1. PICK u \in Seq(X), x \in X : t = Append(u, x)
    BY <1>5, SequenceEmptyOrAppend
  <2>2. Len(u) \in Nat /\ Len(u) < n
    BY <1>3, <2>1, AppendProperties, SMT
  <2>3. Equal(u)
    BY <1>2, <2>2, SMT
  <2>4. \A y : y \in ToSet(t) <=> y \in ToSet(u) \/ y = x
    BY <2>1, ToSetAppend
  <2>5. /\ Filtered(t, S) = IF x \in S THEN Append(Filtered(u, S), x) ELSE Filtered(u, S)
        /\ Filtered(t, T) = IF x \in T THEN Append(Filtered(u, T), x) ELSE Filtered(u, T)
    BY <2>1, FilteredStep
  <2>6. Equal(t)
    BY <2>3, <2>4, <2>5 DEF Equal
  <2> QED
    BY <1>3, <2>6
<1> QED
  BY <1>4, <1>5

(* To filter twice is to filter for both.                                   *)
LEMMA FilterTwice ==
  ASSUME NEW X, NEW s \in Seq(X), NEW S, NEW T
  PROVE  Filtered(Filtered(s, S), T) = Filtered(s, S \cap T)
<1> DEFINE Both(t) == Filtered(Filtered(t, S), T) = Filtered(t, S \cap T)
<1> SUFFICES \A t \in Seq(X) : Both(t)
  OBVIOUS
<1> HIDE DEF Both
<1> DEFINE B == {n \in Nat : \E t \in Seq(X) : Len(t) = n /\ ~ Both(t)}
<1>1. SUFFICES ASSUME B # {}
               PROVE  FALSE
  BY SMT
<1>2. PICK n \in B : \A k \in B : n <= k
  BY <1>1, LeastNumber
<1>3. PICK t \in Seq(X) : Len(t) = n /\ ~ Both(t)
  BY <1>2
<1>4. CASE t = <<>>
  BY <1>3, <1>4, FilteredNone DEF Both
<1>5. CASE t # <<>>
  <2>1. PICK u \in Seq(X), x \in X : t = Append(u, x)
    BY <1>5, SequenceEmptyOrAppend
  <2>2. Len(u) \in Nat /\ Len(u) < n
    BY <1>3, <2>1, AppendProperties, SMT
  <2>3. Both(u)
    BY <1>2, <2>2, SMT
  <2>4. PICK v : v = Filtered(u, S)
    OBVIOUS
  <2>5. v \in Seq(X)
    BY <2>4, FilterRight DEF FilterIsRight
  <2>6. Filtered(t, S) = IF x \in S THEN Append(v, x) ELSE v
    BY <2>1, <2>4, FilteredStep
  <2>7. Filtered(Append(v, x), T) = IF x \in T THEN Append(Filtered(v, T), x) ELSE Filtered(v, T)
    BY <2>5, FilteredStep
  <2>8. Filtered(t, S \cap T) = IF x \in S \cap T THEN Append(Filtered(u, S \cap T), x)
                                ELSE Filtered(u, S \cap T)
    BY <2>1, FilteredStep
  <2>9. Both(t)
    BY <2>3, <2>4, <2>6, <2>7, <2>8 DEF Both
  <2> QED
    BY <1>3, <2>9
<1> QED
  BY <1>4, <1>5

(* The rules that have not expired at n, and those of a family.             *)
LiveAt(n) == {r \in Rules : r.expire = 0 \/ r.expire > n}
For(f) == {r \in Rules : r.dst \in {"any", "name", "dns", Version[f]}}

Agree(s, t, n) == Filtered(s, LiveAt(n)) = Filtered(t, LiveAt(n))
Obeyed(q, s, n, f) == Filtered(q, LiveAt(n)) = Filtered(s, LiveAt(n) \cap For(f))
DueFor(s, T) == \A r \in ToSet(s) : r.expire # 0 => \E t \in T : t <= r.expire

(* The elements of a list of rules are rules.                               *)
LEMMA InRules ==
  ASSUME NEW s \in Seq(Rules)
  PROVE  \A r \in ToSet(s) : r \in Rules
BY SMT DEF ToSet

(* unexpired() is a filter by the clock alone.                              *)
LEMMA UnexpiredIs ==
  ASSUME NEW s \in Seq(Rules), time \in Nat
  PROVE  /\ unexpired(s) = Filtered(s, LiveAt(time))
         /\ unexpired(s) \in Seq(Rules)
<1>1. ASSUME NEW r \in ToSet(s)
      PROVE  r \in {x \in ToSet(s) : ~expired(x)} <=> r \in LiveAt(time)
  <2>1. r \in Rules /\ r.expire \in Nat
    BY InRules, SMT DEF Rules
  <2> QED
    BY <1>1, <2>1, SMT DEF expired, LiveAt
<1> QED
  BY <1>1, FilterSame, FilterRight DEF unexpired, FilterIsRight

(* qdb_entries() is a filter by the clock and the family.                   *)
LEMMA EntriesAre ==
  ASSUME NEW s \in Seq(Rules), time \in Nat, NEW f \in Families
  PROVE  /\ qdb_entries(s, f) = Filtered(s, LiveAt(time) \cap For(f))
         /\ qdb_entries(s, f) \in Seq(Rules)
<1>1. PICK u : u = Filtered(s, LiveAt(time))
  OBVIOUS
<1>2. u = unexpired(s) /\ u \in Seq(Rules) /\ \A r \in ToSet(u) : r \in ToSet(s)
  BY <1>1, UnexpiredIs, FilterRight DEF FilterIsRight
<1>3. PICK D : D = {r \in ToSet(s) : r.dst # (IF f = 6 THEN "v4" ELSE "v6")}
  BY Zenon
<1>4. ASSUME NEW r \in ToSet(u)
      PROVE  r \in D <=> r \in For(f)
  <2>1. r \in Rules /\ r \in ToSet(s) /\ r.dst \in {"any", "name", "dns", "v4", "v6"}
    BY <1>2, <1>4, InRules, SMT DEF Rules
  <2> QED
    BY <1>3, <2>1, SMT DEF For, Version, Families
<1>5. Filtered(u, D) = Filtered(u, For(f)) /\ Filtered(u, D) \in Seq(Rules)
  BY <1>2, <1>4, FilterSame, FilterRight DEF FilterIsRight
<1>6. Filtered(u, For(f)) = Filtered(s, LiveAt(time) \cap For(f))
  BY <1>1, FilterTwice
<1> QED
  BY <1>2, <1>3, <1>5, <1>6 DEF qdb_entries

(* What expires does not come back.                                         *)
LEMMA FewerLater ==
  ASSUME NEW m \in Nat, NEW n \in Nat, m <= n
  PROVE  LiveAt(n) \subseteq LiveAt(m)
<1>1. \A r \in Rules : r.expire \in Nat
  BY SMT DEF Rules
<1> QED
  BY <1>1, SMT DEF LiveAt

(* Lists that agree now agree for ever.                                     *)
LEMMA AgreeLater ==
  ASSUME NEW s \in Seq(Rules), NEW t \in Seq(Rules), NEW m \in Nat, NEW n \in Nat, m <= n,
         Agree(s, t, m)
  PROVE  Agree(s, t, n)
<1>1. LiveAt(m) \cap LiveAt(n) = LiveAt(n)
  BY FewerLater
<1>2. Filtered(s, LiveAt(n)) = Filtered(Filtered(s, LiveAt(m)), LiveAt(n))
  BY <1>1, FilterTwice
<1>3. Filtered(t, LiveAt(n)) = Filtered(Filtered(t, LiveAt(m)), LiveAt(n))
  BY <1>1, FilterTwice
<1> QED
  BY <1>2, <1>3 DEF Agree

(* What is obeyed now is obeyed for ever, while nobody changes it.          *)
LEMMA ObeyedLater ==
  ASSUME NEW q \in Seq(Rules), NEW s \in Seq(Rules), NEW f, NEW m \in Nat, NEW n \in Nat,
         m <= n, Obeyed(q, s, m, f)
  PROVE  Obeyed(q, s, n, f)
<1>1. /\ LiveAt(m) \cap LiveAt(n) = LiveAt(n)
      /\ (LiveAt(m) \cap For(f)) \cap LiveAt(n) = LiveAt(n) \cap For(f)
  BY FewerLater
<1>2. Filtered(q, LiveAt(n)) = Filtered(Filtered(q, LiveAt(m)), LiveAt(n))
  BY <1>1, FilterTwice
<1>3. Filtered(s, LiveAt(n) \cap For(f)) = Filtered(Filtered(s, LiveAt(m) \cap For(f)), LiveAt(n))
  BY <1>1, FilterTwice
<1> QED
  BY <1>2, <1>3 DEF Obeyed

(* What is saved, and what is sent, says the same as what was in memory.    *)
LEMMA SavedAgrees ==
  ASSUME NEW s \in Seq(Rules), NEW n
  PROVE  Agree(Filtered(s, LiveAt(n)), s, n)
<1>1. LiveAt(n) \cap LiveAt(n) = LiveAt(n)
  OBVIOUS
<1> QED
  BY <1>1, FilterTwice DEF Agree

(* What is sent says of a family what the list says that was sent.          *)
LEMMA SentIsObeyed ==
  ASSUME NEW s \in Seq(Rules), NEW t \in Seq(Rules), NEW n, NEW f, Agree(s, t, n)
  PROVE  Obeyed(Filtered(s, LiveAt(n) \cap For(f)), t, n, f)
<1>1. (LiveAt(n) \cap For(f)) \cap LiveAt(n) = LiveAt(n) \cap For(f)
  OBVIOUS
<1>2. Filtered(Filtered(s, LiveAt(n) \cap For(f)), LiveAt(n)) = Filtered(s, LiveAt(n) \cap For(f))
  BY <1>1, FilterTwice
<1>3. Filtered(s, LiveAt(n) \cap For(f)) = Filtered(Filtered(s, LiveAt(n)), For(f))
  BY FilterTwice
<1>4. Filtered(t, LiveAt(n) \cap For(f)) = Filtered(Filtered(t, LiveAt(n)), For(f))
  BY FilterTwice
<1> QED
  BY <1>2, <1>3, <1>4 DEF Agree, Obeyed

(* A timer for what is left now is one for what is left later.              *)
LEMMA DueLater ==
  ASSUME NEW s \in Seq(Rules), NEW T, NEW m \in Nat, NEW n \in Nat, m <= n,
         DueFor(Filtered(s, LiveAt(m)), T)
  PROVE  DueFor(Filtered(s, LiveAt(n)), T)
<1>1. \A r \in ToSet(Filtered(s, LiveAt(n))) : r \in ToSet(Filtered(s, LiveAt(m)))
  BY FewerLater, FilterRight DEF FilterIsRight
<1> QED
  BY <1>1 DEF DueFor

(* A timer for a list is one for what is sent of it.                        *)
LEMMA DueForSent ==
  ASSUME NEW s \in Seq(Rules), NEW T, NEW n, NEW f, DueFor(Filtered(s, LiveAt(n)), T)
  PROVE  DueFor(Filtered(s, LiveAt(n) \cap For(f)), T)
<1>1. \A r \in ToSet(Filtered(s, LiveAt(n) \cap For(f))) : r \in ToSet(Filtered(s, LiveAt(n)))
  BY FilterRight DEF FilterIsRight
<1> QED
  BY <1>1 DEF DueFor

(* The timer that save() sets is due for every rule that is left.           *)
LEMMA TimerIsDue ==
  ASSUME NEW s \in Seq(Rules), time \in Nat, slept \in Nat
  PROVE  DueFor(Filtered(s, LiveAt(time)), NextTimer(s))
<1>1. PICK u : u = unexpired(s)
  OBVIOUS
<1>2. u = Filtered(s, LiveAt(time)) /\ u \in Seq(Rules)
  BY <1>1, UnexpiredIs
<1>3. PICK E : E = {r.expire : r \in ToSet(u)} \ {0}
  BY Zenon
<1>4. E \subseteq Nat
  BY <1>2, <1>3, InRules, SMT DEF Rules
<1>5. ASSUME NEW r \in ToSet(u), r.expire # 0
      PROVE  \E t \in NextTimer(s) : t <= r.expire
  <2>1. r.expire \in E
    BY <1>3, <1>5
  <2>2. \E m \in E : \A k \in E : m <= k
    BY <1>4, <2>1, LeastNumber
  <2>3. PICK m : m = Min(E)
    OBVIOUS
  <2>4. m \in E /\ \A k \in E : m <= k
    BY <2>2, <2>3 DEF Min
  <2>5. NextTimer(s) = IF E = {} THEN {} ELSE {Min(E) - slept}
    BY <1>1, <1>3, Zenon DEF NextTimer
  <2>6. m \in Nat /\ m <= r.expire /\ r.expire \in Nat
    BY <1>4, <2>1, <2>4
  <2>7. m - slept <= r.expire
    BY <1>4, <2>1, <2>6, SMT
  <2> QED
    BY <2>1, <2>3, <2>5, <2>7
<1> QED
  BY <1>2, <1>5 DEF DueFor

(* A rule with other words is a rule.                                       *)
LEMMA ChangedRule ==
  ASSUME NEW r \in Rules, NEW a \in {"accept", "drop"}, NEW p \in {"any", "tcp", "udp", "icmp"},
         NEW d \in {"any", "name", "dns", "v4", "v6"}
  PROVE  /\ [r EXCEPT !.action = a, !.proto = p, !.dst = d] \in Rules
         /\ [r EXCEPT !.action = a, !.proto = p] \in Rules
<1>1. PICK x : x = [r EXCEPT !.action = a]
  OBVIOUS
<1>2. x \in Rules
  BY <1>1, SMT DEF Rules
<1>3. PICK y : y = [x EXCEPT !.proto = p]
  OBVIOUS
<1>4. y \in Rules
  BY <1>2, <1>3, SMT DEF Rules
<1>5. [y EXCEPT !.dst = d] \in Rules
  BY <1>4, SMT DEF Rules
<1>6. y = [r EXCEPT !.action = a, !.proto = p]
  BY <1>1, <1>3, Zenon
<1>7. [y EXCEPT !.dst = d] = [r EXCEPT !.action = a, !.proto = p, !.dst = d]
  BY <1>6, Zenon
<1> QED
  BY <1>4, <1>5, <1>6, <1>7

(* The rules of a file, or of none, are rules, and so is what is in memory. *)
LEMMA LoadedType ==
  ASSUME conf \in Seq(Rules), rules \in Seq(Rules)
  PROVE  Stored \in Seq(Rules) /\ firewall \in Seq(Rules)
<1>1. PICK d : d = load_defaults[1]
  OBVIOUS
<1>2. d \in Rules /\ load_defaults = <<d>>
  BY <1>1, SMT DEF load_defaults, Rules, NoType
<1>3. load_defaults \in Seq(Rules)
  BY <1>2, SMT
<1>4. load_v1 \in Seq(Rules)
  <2> DEFINE Plain(a, p, x) == [d EXCEPT !.action = a, !.proto = p, !.dst = x]
             Other == IF OldFile.policy = "accept" THEN "drop" ELSE "accept"
             old == [i \in DOMAIN OldFile.elements |-> from_xml_v1(OldFile.elements[i], Other)]
  <2>1. Plain(OldFile.dns, "any", "dns") \in Rules /\ Plain(OldFile.icmp, "icmp", "any") \in Rules
    <3>1. OldFile.dns \in {"accept", "drop"} /\ OldFile.icmp \in {"accept", "drop"}
      BY LinesAssumption
    <3> QED
      BY <1>2, <3>1, ChangedRule, Zenon
  <2>2. old \in Seq(Rules)
    <3>1. ASSUME NEW i \in DOMAIN OldFile.elements
          PROVE  from_xml_v1(OldFile.elements[i], Other) \in Rules
      <4>1. PICK e : e = OldFile.elements[i]
        OBVIOUS
      <4>2. e \in Rules
        BY <3>1, <4>1, LinesAssumption, SMT
      <4>3. from_xml_v1(e, Other) \in Rules
        <5>1. PICK p : p = IF e.proto = "any" /\ <<e.lo, e.hi>> # <<0, 0>> THEN "tcp" ELSE e.proto
          OBVIOUS
        <5>2. p \in {"any", "tcp", "udp", "icmp"} /\ Other \in {"accept", "drop"}
          BY <4>2, <5>1, SMT DEF Rules
        <5>3. from_xml_v1(e, Other) = [e EXCEPT !.action = Other, !.proto = p]
          BY <5>1 DEF from_xml_v1
        <5> QED
          <6>1. PICK o : o = Other
            OBVIOUS
          <6>2. o \in {"accept", "drop"} /\ "any" \in {"any", "name", "dns", "v4", "v6"}
            BY <5>2, <6>1
          <6>3. [e EXCEPT !.action = o, !.proto = p] \in Rules
            BY <4>2, <5>2, <6>2, ChangedRule, Zenon
          <6> QED
            BY <5>3, <6>1, <6>3
      <4> QED
        BY <4>1, <4>3
    <3>2. DOMAIN OldFile.elements = 1..Len(OldFile.elements) /\ Len(OldFile.elements) \in Nat
      BY LinesAssumption, LenProperties
    <3> QED
      BY <3>1, <3>2, SMT
  <2> DEFINE first == <<Plain(OldFile.dns, "any", "dns"), Plain(OldFile.icmp, "icmp", "any")>>
             last == IF OldFile.policy = "accept" THEN load_defaults ELSE <<>>
  <2>3. first \in Seq(Rules) /\ last \in Seq(Rules)
    BY <1>3, <2>1, SMT
  <2>4. load_v1 = first \o old \o last
    BY <1>1 DEF load_v1
  <2> HIDE DEF first, old, last
  <2> QED
    BY <2>2, <2>3, <2>4, ConcatProperties
<1> QED
  BY <1>3, <1>4 DEF Stored, firewall

(* A line that is accepted from a caller is a rule.                         *)
LEMMA LineIsRule ==
  ASSUME NEW l \in Lines, from_api_string(l)
  PROVE  l \in Rules
<1>1. /\ l = [action |-> l.action, proto |-> l.proto, dst |-> l.dst, prefixlen |-> l.prefixlen,
             lo |-> l.lo, hi |-> l.hi, icmptype |-> l.icmptype, expire |-> l.expire]
      /\ l.lo \in Int /\ l.hi \in Int /\ l.expire \in Nat
  BY LinesAssumption, SMT
<1>2. l.prefixlen \in Nat /\ l.dst \in {"any", "name", "dns", "v4", "v6"} /\ l.icmptype \in Nat
  BY SMT DEF from_api_string, DstHost, IcmpType, NoType
<1>3. l.lo \in Nat /\ l.hi \in Nat /\ l.action \in {"accept", "drop"}
      /\ l.proto \in {"any", "tcp", "udp", "icmp"}
  BY <1>1, SMT DEF from_api_string, DstPorts
<1> QED
  BY <1>1, <1>2, <1>3, SMT DEF Rules

(* The inductive invariant, in these terms.                                 *)
PlainInv ==
  /\ version = 2 => Agree(conf, accepted, time)
  /\ version # 2 => timers = {}
  /\ ~doubtful /\ ~lost => Agree(firewall, accepted, time)
  /\ ~untimed => loaded /\ DueFor(Filtered(rules, LiveAt(time)), timers)
  /\ Enforcing /\ ~doubtful /\ ~lost => \A f \in Families : Obeyed(qdb[f], accepted, time, f)
  /\ Enforcing /\ ~untimed => \A f \in Families : DueFor(qdb[f], timers)

(* These terms say what FirewallInv does.                                   *)
LEMMA PlainIs == FirewallTypeOK /\ PlainInv => FirewallInv
<1> SUFFICES ASSUME FirewallTypeOK, PlainInv
             PROVE  FirewallInv
  OBVIOUS
<1>1. /\ conf \in Seq(Rules) /\ rules \in Seq(Rules) /\ accepted \in Seq(Rules)
      /\ firewall \in Seq(Rules) /\ time \in Nat
      /\ \A f \in Families : qdb[f] \in Seq(Rules)
  BY LoadedType DEF FirewallTypeOK
<1>2. /\ Agree(conf, accepted, time) => Says(conf)
      /\ Agree(firewall, accepted, time) => Says(firewall)
  BY <1>1, UnexpiredIs DEF Says, Agree
<1>3. DueFor(Filtered(rules, LiveAt(time)), timers) => Timed(rules)
  BY <1>1, UnexpiredIs DEF DueFor, Timed
<1>4. ASSUME NEW f \in Families, Obeyed(qdb[f], accepted, time, f)
      PROVE  unexpired(qdb[f]) = Filtered(accepted, {r \in ToSet(accepted) :
                ~expired(r) /\ r.dst \in {"any", "name", "dns", Version[f]}})
  <2>1. PICK S : S = {r \in ToSet(accepted) :
                        ~expired(r) /\ r.dst \in {"any", "name", "dns", Version[f]}}
    BY Zenon
  <2>2. ASSUME NEW r \in ToSet(accepted)
        PROVE  r \in S <=> r \in LiveAt(time) \cap For(f)
    <3>1. r \in Rules /\ r.expire \in Nat
      BY <1>1, InRules, SMT DEF Rules
    <3> QED
      BY <1>1, <2>1, <3>1, SMT DEF expired, LiveAt, For
  <2>3. Filtered(accepted, S) = Filtered(accepted, LiveAt(time) \cap For(f))
    BY <1>1, <2>2, FilterSame
  <2>4. unexpired(qdb[f]) = Filtered(qdb[f], LiveAt(time))
    BY <1>1, UnexpiredIs
  <2> QED
    BY <1>4, <2>1, <2>3, <2>4 DEF Obeyed
<1>5. RulesEnforced
  BY <1>4, Zenon DEF PlainInv, RulesEnforced
<1>6. ExpiryPending
  BY DEF PlainInv, ExpiryPending, DueFor
<1> QED
  BY <1>2, <1>3, <1>5, <1>6, Zenon DEF PlainInv, FirewallInv

(* What is sent to a netvm that runs.                                       *)
LEMMA SentIs ==
  ASSUME FirewallTypeOK, NEW rs \in Seq(Rules),
         qdb' = [f \in Families |-> qdb_entries(rs, f)]
  PROVE  /\ qdb' \in [Families -> Seq(Rules)]
         /\ \A f \in Families : qdb'[f] = Filtered(rs, LiveAt(time) \cap For(f))
BY EntriesAre DEF FirewallTypeOK

(* Rules are saved that say what is accepted.                               *)
LEMMA SaveStep ==
  ASSUME FirewallTypeOK, NEW rs \in Seq(Rules), NEW spent, save(rs, spent),
         UNCHANGED <<machines, time, slept>>, accepted' \in Seq(Rules), Agree(rs, accepted', time)
  PROVE  FirewallTypeOK' /\ PlainInv'
<1>1. time \in Nat /\ slept \in Nat /\ time' = time /\ slept' = slept
      /\ qdb \in [Families -> Seq(Rules)]
  BY DEF FirewallTypeOK
<1>2. /\ rules' = rs /\ loaded' = TRUE /\ conf' = Filtered(rs, LiveAt(time)) /\ version' = 2
      /\ conf' \in Seq(Rules)
  BY <1>1, UnexpiredIs DEF save
<1>3. /\ qdb' \in [Families -> Seq(Rules)]
      /\ running /\ netvm /\ up =>
           \A f \in Families : qdb'[f] = Filtered(rs, LiveAt(time) \cap For(f))
  BY <1>1, SentIs DEF save, reload_firewall_for_vm
<1>4. FirewallTypeOK'
  BY <1>1, <1>2, <1>3, Zenon DEF FirewallTypeOK
<1>5. firewall' = rs
  BY <1>2 DEF firewall
<1>6. Agree(conf', accepted', time')
  BY <1>1, <1>2, SavedAgrees DEF Agree
<1>7. DueFor(Filtered(rs, LiveAt(time)), timers')
  <2>1. NextTimer(rs) \subseteq timers'
    BY Zenon DEF save
  <2> QED
    BY <1>1, <2>1, TimerIsDue DEF DueFor
<1>8. ASSUME Enforcing', NEW f \in Families
      PROVE  Obeyed(qdb'[f], accepted', time', f) /\ DueFor(qdb'[f], timers')
  <2>1. qdb'[f] = Filtered(rs, LiveAt(time) \cap For(f))
    BY <1>3, <1>8 DEF Enforcing, machines
  <2> QED
    BY <1>1, <1>7, <2>1, SentIsObeyed, DueForSent
<1>9. PlainInv'
  BY <1>1, <1>2, <1>5, <1>6, <1>7, <1>8, Zenon DEF PlainInv
<1> QED
  BY <1>4, <1>9

(* The rules in memory are sent to the netvm that shall enforce them.       *)
LEMMA SendAgain ==
  ASSUME FirewallTypeOK, PlainInv, Use, UNCHANGED <<conf, version, clock, past>>,
         qdb' \in [Families -> Seq(Rules)],
         Enforcing' => \A f \in Families : qdb'[f] = Filtered(firewall, LiveAt(time) \cap For(f))
  PROVE  FirewallTypeOK' /\ PlainInv'
<1>1. /\ time' = time /\ slept' = slept /\ timers' = timers /\ accepted' = accepted
      /\ doubtful' = doubtful /\ lost' = lost /\ untimed' = untimed
      /\ rules' = firewall /\ loaded' = TRUE /\ firewall' = firewall
  BY DEF clock, past, Use, firewall
<1>2. firewall \in Seq(Rules) /\ accepted \in Seq(Rules)
  BY LoadedType DEF FirewallTypeOK
<1>3. FirewallTypeOK'
  BY <1>1, <1>2, Zenon DEF FirewallTypeOK
<1>4. ~untimed => DueFor(Filtered(firewall, LiveAt(time)), timers)
  BY DEF PlainInv, firewall
<1>5. ASSUME Enforcing', NEW f \in Families
      PROVE  /\ ~doubtful /\ ~lost => Obeyed(qdb'[f], accepted, time, f)
             /\ ~untimed => DueFor(qdb'[f], timers)
  <2>1. qdb'[f] = Filtered(firewall, LiveAt(time) \cap For(f))
    BY <1>5
  <2>2. ~doubtful /\ ~lost => Agree(firewall, accepted, time)
    BY DEF PlainInv
  <2>3. ASSUME Agree(firewall, accepted, time)
        PROVE  Obeyed(Filtered(firewall, LiveAt(time) \cap For(f)), accepted, time, f)
    BY <1>2, <2>3, SentIsObeyed
  <2>4. ASSUME DueFor(Filtered(firewall, LiveAt(time)), timers)
        PROVE  DueFor(Filtered(firewall, LiveAt(time) \cap For(f)), timers)
    BY <1>2, <2>4, DueForSent
  <2> QED
    BY <1>4, <2>1, <2>2, <2>3, <2>4, Zenon
<1>6. PlainInv'
  BY <1>1, <1>4, <1>5, Zenon DEF PlainInv
<1> QED
  BY <1>3, <1>6

(* The netvm does not enforce the rules.                                    *)
LEMMA NotEnforced ==
  ASSUME FirewallTypeOK, PlainInv, UNCHANGED <<store, clock, past>>,
         qdb' \in [Families -> Seq(Rules)], ~Enforcing'
  PROVE  FirewallTypeOK' /\ PlainInv'
<1>1. /\ time' = time /\ slept' = slept /\ timers' = timers /\ accepted' = accepted
      /\ doubtful' = doubtful /\ lost' = lost /\ untimed' = untimed
      /\ rules' = rules /\ loaded' = loaded /\ conf' = conf /\ version' = version
      /\ firewall' = firewall
  BY DEF clock, past, store, firewall, Stored
<1> QED
  BY <1>1, Zenon DEF FirewallTypeOK, PlainInv

(* Time passes.                                                             *)
LEMMA TimePasses ==
  ASSUME FirewallTypeOK, PlainInv, UNCHANGED <<store, qdb, machines, timers, past>>,
         time' \in Nat, time <= time', slept' \in Nat
  PROVE  FirewallTypeOK' /\ PlainInv'
<1>1. /\ timers' = timers /\ accepted' = accepted
      /\ doubtful' = doubtful /\ lost' = lost /\ untimed' = untimed
      /\ rules' = rules /\ loaded' = loaded /\ conf' = conf /\ version' = version
      /\ firewall' = firewall /\ qdb' = qdb /\ (Enforcing' <=> Enforcing)
  BY DEF past, store, machines, firewall, Stored, Enforcing
<1>2. FirewallTypeOK'
  BY <1>1 DEF FirewallTypeOK
<1>3. /\ conf \in Seq(Rules) /\ rules \in Seq(Rules) /\ accepted \in Seq(Rules)
      /\ firewall \in Seq(Rules) /\ time \in Nat
      /\ \A f \in Families : qdb[f] \in Seq(Rules)
  BY LoadedType DEF FirewallTypeOK
<1>4. /\ Agree(conf, accepted, time) => Agree(conf, accepted, time')
      /\ Agree(firewall, accepted, time) => Agree(firewall, accepted, time')
  BY <1>3, AgreeLater
<1>5. DueFor(Filtered(rules, LiveAt(time)), timers)
        => DueFor(Filtered(rules, LiveAt(time')), timers)
  BY <1>3, DueLater
<1>6. \A f \in Families : Obeyed(qdb[f], accepted, time, f) => Obeyed(qdb[f], accepted, time', f)
  BY <1>3, ObeyedLater
<1>7. PlainInv'
  BY <1>1, <1>4, <1>5, <1>6, Zenon DEF PlainInv
<1> QED
  BY <1>2, <1>7

(* Every step keeps the rules that are enforced those that were accepted.   *)
LEMMA FirewallStep ==
  FirewallTypeOK /\ PlainInv /\ [FirewallNext]_firewallVars => FirewallTypeOK' /\ PlainInv'
<1> SUFFICES ASSUME FirewallTypeOK, PlainInv, [FirewallNext]_firewallVars
             PROVE  FirewallTypeOK' /\ PlainInv'
  OBVIOUS
<1>1. /\ conf \in Seq(Rules) /\ rules \in Seq(Rules) /\ accepted \in Seq(Rules)
      /\ Stored \in Seq(Rules) /\ firewall \in Seq(Rules)
      /\ time \in Nat /\ slept \in Nat /\ qdb \in [Families -> Seq(Rules)]
  BY LoadedType DEF FirewallTypeOK
<1>2. [f \in Families |-> <<>>] \in [Families -> Seq(Rules)]
  BY SMT
<1>3. ASSUME NEW n \in 0..2, NEW rs \in [1..n -> Lines], Set(rs)
      PROVE  FirewallTypeOK' /\ PlainInv'
  <2>1. rs \in Seq(Rules)
    <3>1. \A i \in 1..n : rs[i] \in Rules
      BY <1>3, LineIsRule DEF Set
    <3> QED
      BY <3>1, SMT
  <2>2. CASE save(rs, {}) /\ accepted' = rs /\ lost' = FALSE
    <3>1. accepted' \in Seq(Rules) /\ Agree(rs, accepted', time)
      BY <2>1, <2>2 DEF Agree
    <3> QED
      BY <1>3, <2>1, <2>2, <3>1, SaveStep DEF Set
  <2>3. CASE /\ rules' = rs /\ loaded' = TRUE /\ doubtful' = TRUE /\ untimed' = TRUE
             /\ UNCHANGED <<conf, version, qdb, timers, accepted, lost>>
    <3>1. time' = time /\ slept' = slept
      BY <1>3 DEF Set
    <3> QED
      BY <2>1, <2>3, <3>1, Zenon DEF FirewallTypeOK, PlainInv
  <2> QED
    BY <1>3, <2>2, <2>3 DEF Set
<1>4. ASSUME Reload
      PROVE  FirewallTypeOK' /\ PlainInv'
  <2>1. /\ qdb' \in [Families -> Seq(Rules)]
        /\ up => \A f \in Families : qdb'[f] = Filtered(firewall, LiveAt(time) \cap For(f))
    BY <1>1, <1>4, SentIs DEF Reload, reload_firewall_for_vm
  <2>2. Enforcing' => up
    BY <1>4 DEF Reload, Enforcing, machines
  <2> QED
    BY <1>4, <2>1, <2>2, SendAgain DEF Reload
<1>5. ASSUME NEW t \in timers, ExpireRules(t)
      PROVE  FirewallTypeOK' /\ PlainInv'
  <2>1. /\ version = 2 /\ Stored = conf /\ Agree(Stored, accepted, time)
        /\ time' = time /\ slept' = slept /\ accepted' = accepted /\ lost' = lost
    <3>1. version = 2
      BY <1>5 DEF PlainInv
    <3> QED
      BY <1>5, <3>1 DEF PlainInv, Stored, ExpireRules
  <2>2. CASE save(Stored, {t})
    BY <1>1, <1>5, <2>1, <2>2, SaveStep DEF ExpireRules
  <2>3. CASE /\ rules' = Stored /\ loaded' = TRUE /\ timers' = timers \ {t}
             /\ untimed' = TRUE /\ UNCHANGED <<conf, version, qdb, doubtful>>
    <3>1. firewall' = conf /\ rules' = conf
      BY <2>1, <2>3 DEF firewall
    <3>2. /\ conf' = conf /\ version' = version /\ qdb' = qdb /\ doubtful' = doubtful
          /\ untimed' = TRUE /\ (Enforcing' <=> Enforcing)
      BY <1>5, <2>3 DEF ExpireRules, Enforcing, machines
    <3> QED
      BY <1>1, <2>1, <3>1, <3>2, Zenon DEF FirewallTypeOK, PlainInv
  <2> QED
    BY <1>5, <2>2, <2>3 DEF ExpireRules
<1>6. ASSUME QubeStarts
      PROVE  FirewallTypeOK' /\ PlainInv'
  <2>1. CASE netvm
    <3>1. up /\ qdb' = [f \in Families |-> qdb_entries(firewall, f)]
      BY <1>6, <2>1 DEF QubeStarts, reload_firewall_for_vm
    <3> QED
      BY <1>1, <1>6, <2>1, <3>1, SentIs, SendAgain DEF QubeStarts
  <2>2. CASE ~netvm
    BY <1>1, <1>6, <2>2, NotEnforced DEF QubeStarts, Enforcing, store
  <2> QED
    BY <2>1, <2>2
<1>7. ASSUME QubeStops
      PROVE  FirewallTypeOK' /\ PlainInv'
  BY <1>1, <1>7, NotEnforced DEF QubeStops, Enforcing
<1>8. ASSUME NetvmStarts
      PROVE  FirewallTypeOK' /\ PlainInv'
  <2>1. CASE running /\ netvm
    BY <1>1, <1>8, <2>1, SentIs, SendAgain DEF NetvmStarts
  <2>2. CASE ~(running /\ netvm)
    BY <1>1, <1>2, <1>8, <2>2, NotEnforced DEF NetvmStarts, Enforcing, store
  <2> QED
    BY <2>1, <2>2
<1>9. ASSUME NetvmStops
      PROVE  FirewallTypeOK' /\ PlainInv'
  BY <1>1, <1>9, NotEnforced DEF NetvmStops, Enforcing
<1>10. ASSUME SetNetvm
       PROVE  FirewallTypeOK' /\ PlainInv'
  <2>1. CASE running /\ netvm'
    <3>1. qdb' = [f \in Families |-> qdb_entries(firewall, f)]
      BY <1>10, <2>1 DEF SetNetvm, reload_firewall_for_vm
    <3> QED
      BY <1>1, <1>10, <2>1, <3>1, SentIs, SendAgain DEF SetNetvm
  <2>2. CASE ~(running /\ netvm')
    BY <1>1, <1>10, <2>2, NotEnforced DEF SetNetvm, Enforcing, store
  <2> QED
    BY <2>1, <2>2
<1>11. ASSUME Tick \/ HostSleeps
       PROVE  FirewallTypeOK' /\ PlainInv'
  <2>1. /\ time' = time + 1 /\ slept' \in {slept, slept + 1}
        /\ UNCHANGED <<store, qdb, machines, timers, past>>
    BY <1>11, Zenon DEF Tick, HostSleeps
  <2>2. time' \in Nat /\ time <= time' /\ slept' \in Nat
    BY <1>1, <2>1, SMT
  <2> QED
    BY <2>1, <2>2, TimePasses
<1>12. ASSUME QubesdRestarts
       PROVE  FirewallTypeOK' /\ PlainInv'
  <2>1. /\ time' = time /\ accepted' = accepted /\ doubtful' = doubtful
        /\ conf' = conf /\ version' = version /\ qdb' = qdb
        /\ rules' = <<>> /\ timers' = {} /\ untimed' = TRUE /\ slept' = slept
        /\ (Enforcing' <=> Enforcing) /\ firewall' = Stored
    BY <1>12 DEF QubesdRestarts, Enforcing, machines, firewall, Stored
  <2>2. <<>> \in Seq(Rules)
    BY SMT
  <2>3. ~lost' => ~lost /\ Agree(Stored, accepted, time)
    <3>1. ~lost' => ~lost /\ unexpired(Stored) = unexpired(accepted)
      BY <1>12, Zenon DEF QubesdRestarts
    <3> QED
      BY <1>1, <3>1, UnexpiredIs DEF Agree
  <2> QED
    BY <1>1, <2>1, <2>2, <2>3, Zenon DEF FirewallTypeOK, PlainInv
<1>13. ASSUME UNCHANGED firewallVars
       PROVE  FirewallTypeOK' /\ PlainInv'
  <2>1. UNCHANGED <<store, qdb, machines, timers, past>> /\ time' = time /\ slept' = slept
    BY <1>13 DEF firewallVars, clock
  <2> QED
    BY <1>1, <2>1, TimePasses
<1> QED
  BY <1>3, <1>4, <1>5, <1>6, <1>7, <1>8, <1>9, <1>10, <1>11, <1>12, <1>13 DEF FirewallNext

(* It holds in the beginning, also of a disposable that cloned its rules.   *)
LEMMA FirewallStart == FirewallInit => FirewallTypeOK /\ PlainInv
<1> SUFFICES ASSUME FirewallInit
             PROVE  FirewallTypeOK /\ PlainInv
  OBVIOUS
<1>1. /\ time = 0 /\ slept = 0 /\ timers = {} /\ untimed = TRUE /\ running = FALSE
      /\ conf = <<>> /\ accepted = firewall /\ version \in {0, 1}
      /\ qdb = [f \in Families |-> <<>>]
  BY SMT DEF FirewallInit
<1>2. rules \in Seq(Rules)
  <2>1. CASE rules = <<>>
    BY <2>1, SMT
  <2>2. CASE \E l \in Lines : from_api_string(l) /\ rules = clone(l)
    <3>1. PICK l \in Lines : from_api_string(l) /\ rules = clone(l)
      BY <2>2
    <3>2. l \in Rules
      BY <3>1, LineIsRule
    <3> QED
      BY <3>1, <3>2, SMT DEF clone
  <2> QED
    BY <2>1, <2>2 DEF FirewallInit
<1>3. conf \in Seq(Rules) /\ qdb \in [Families -> Seq(Rules)]
  BY <1>1, SMT
<1>4. Stored \in Seq(Rules) /\ firewall \in Seq(Rules)
  BY <1>2, <1>3, LoadedType
<1>5. FirewallTypeOK
  BY <1>1, <1>2, <1>3, <1>4, SMT DEF FirewallTypeOK
<1>6. PlainInv
  BY <1>1 DEF PlainInv, Enforcing, Agree
<1> QED
  BY <1>5, <1>6

(* Whoever sets the rules, stops a qube, its netvm or qubesd, and however    *)
(* timers and the sleep of the host interleave: the file says what was last  *)
(* accepted, and so does what is in memory, unless a save failed or a        *)
(* restart lost it; and where rules are enforced that a timer was set for,   *)
(* the first to expire is not forgotten.                                     *)
THEOREM FirewallInvariant == FirewallSpec => []FirewallInv
<1>1. FirewallInit => FirewallTypeOK /\ PlainInv
  BY FirewallStart
<1>2. FirewallTypeOK /\ PlainInv /\ [FirewallNext]_firewallVars => (FirewallTypeOK /\ PlainInv)'
  BY FirewallStep
<1>3. FirewallTypeOK /\ PlainInv => FirewallInv
  BY PlainIs
<1> QED
  BY <1>1, <1>2, <1>3, PTL DEF FirewallSpec

(* A netvm enforces for a qube the rules of its family that were last set    *)
(* with success and have not expired (admin.vm.firewall.Set, Firewall.save). *)
THEOREM RulesAreEnforced == FirewallSpec => []RulesEnforced
<1>1. FirewallInv => RulesEnforced
  BY DEF FirewallInv
<1> QED
  BY <1>1, FirewallInvariant, PTL

(* For every rule a netvm enforces and that expires there is a timer that    *)
(* saves the rules again by then, as qubesd measures time (_expire_rules()). *)
THEOREM ExpiryStaysPending == FirewallSpec => []ExpiryPending
<1>1. FirewallInv => ExpiryPending
  BY DEF FirewallInv
<1> QED
  BY <1>1, FirewallInvariant, PTL

----------------------------------------------------------------------------
(* Backup.                                                                 *)

(* Every step of a backup, of its callers and of who cancels it keeps the   *)
(* invariant.                                                               *)
LEMMA ExportStep == ExportInv /\ [BackupNext]_backupVars => ExportInv'
<1> SUFFICES ASSUME ExportInv, [BackupNext]_backupVars
             PROVE  ExportInv'
  OBVIOUS
<1>1. ASSUME NEW c \in Calls, Execute(c)
     PROVE  ExportInv'
  BY <1>1, SMT
    DEF Execute, ExportInv, ExportsReleased, Archiving, Ended, Request, Archiver,
        Sending, Service
<1>2. ASSUME NEW c \in Calls, Loaded(c)
     PROVE  ExportInv'
  BY <1>2, SMT
    DEF Loaded, ExportInv, ExportsReleased, Archiving, Ended, Request, Archiver, Sending,
        Service
<1>3. ASSUME NEW c \in Calls, Returns(c)
     PROVE  ExportInv'
  BY <1>3, SMT
    DEF Returns, ExportInv, ExportsReleased, Archiving, Ended, Request, Archiver,
        Sending, Service
<1>4. CASE Export
  BY <1>4, SMT
    DEF Export, ArchiveStep, ChunkStep, Fails, ExportInv, ExportsReleased, Archiving, Ended,
        Request, Archiver, Sending, Service
<1>5. CASE Spawn
  BY <1>5, SMT
    DEF Spawn, ArchiveStep, ChunkStep, Fails, ExportInv, ExportsReleased, Archiving, Ended,
        Request, Archiver, Sending, Service
<1>6. CASE Chunk
  BY <1>6, SMT
    DEF Chunk, ChunkStep, ExportInv, ExportsReleased, Archiving, Ended, Request, Archiver,
        Sending, Service
<1>7. CASE Put
  BY <1>7, SMT
    DEF Put, ArchiveStep, ChunkStep, Fails, ExportInv, ExportsReleased, Archiving, Ended,
        Request, Archiver, Sending, Service
<1>8. CASE Cleanup
  BY <1>8, SMT
    DEF Cleanup, ArchiveStep, ChunkStep, Fails, ExportInv, ExportsReleased, Archiving, Ended,
        Request, Archiver, Sending, Service
<1>9. CASE WaitTar
  BY <1>9, SMT
    DEF WaitTar, ArchiveStep, ChunkStep, Fails, ExportInv, ExportsReleased, Archiving, Ended,
        Request, Archiver, Sending, Service
<1>10. CASE Finish
  BY <1>10, SMT
    DEF Finish, ArchiveStep, ChunkStep, Fails, ExportInv, ExportsReleased, Archiving, Ended,
        Request, Archiver, Sending, Service
<1>11. CASE Get
  BY <1>11, SMT
    DEF Get, SendStep, ExportInv, ExportsReleased, Archiving, Ended, Request, Archiver,
        Sending, Service
<1>12. CASE Send
  BY <1>12, SMT
    DEF Send, SendStep, ExportInv, ExportsReleased, Archiving, Ended, Request, Archiver,
        Sending, Service
<1>13. CASE ServiceEnds
  BY <1>13, SMT
    DEF ServiceEnds, SendStep, ExportInv, ExportsReleased, Archiving, Ended, Request,
        Archiver, Sending, Service
<1>14. CASE WatchService
  BY <1>14, SMT
    DEF WatchService, CancelSender, ExportInv, ExportsReleased, Archiving, Ended,
        Request, Archiver, Sending, Service
<1>15. CASE WatchSender
  BY <1>15, SMT
    DEF WatchSender, CancelArchive, ExportInv, ExportsReleased, Archiving, Ended,
        Request, Archiver, Sending, Service
<1>16. CASE CallService
  BY <1>16, SMT
    DEF CallService, MainStep, Over, ExportInv, ExportsReleased, Archiving, Ended,
        Request, Archiver, Sending, Service
<1>17. CASE MakeHeader
  BY <1>17, SMT
    DEF MakeHeader, MainStep, Over, ExportInv, ExportsReleased, Archiving, Ended,
        Request, Archiver, Sending, Service
<1>18. CASE ArchiveEnded
  BY <1>18, SMT
    DEF ArchiveEnded, Main, MainStep, ExportInv, ExportsReleased, Archiving, Ended,
        Request, Archiver, Sending, Service
<1>19. CASE PutError
  BY <1>19, SMT
    DEF PutError, MainStep, ExportInv, ExportsReleased, Archiving, Ended, Request,
        Archiver, Sending, Service
<1>20. CASE ServiceAwaited
  BY <1>20, SMT
    DEF ServiceAwaited, Main, MainStep, Close, ExportInv, ExportsReleased, Archiving,
        Ended, Request, Archiver, Sending, Service
<1>21. CASE ErrorSent
  BY <1>21, SMT
    DEF ErrorSent, Main, MainStep, Close, ExportInv, ExportsReleased, Archiving, Ended,
        Request, Archiver, Sending, Service
<1>22. CASE Sent
  BY <1>22, SMT
    DEF Sent, Main, MainStep, Close, ExportInv, ExportsReleased, Archiving, Ended,
        Request, Archiver, Sending, Service
<1>23. CASE Closed
  BY <1>23, SMT
    DEF Closed, Main, MainStep, ExportInv, ExportsReleased, Archiving, Ended, Request,
        Archiver, Sending, Service
<1>24. CASE End
  BY <1>24, SMT
    DEF End, MainStep, ExportInv, ExportsReleased, Archiving, Ended, Request, Archiver,
        Sending, Service
<1>25. CASE Cancel
  BY <1>25, SMT
    DEF Cancel, CancelSender, CancelArchive, Over, Close, ExportInv, ExportsReleased,
        Archiving, Ended, Request, Archiver, Sending, Service
<1>26. CASE UNCHANGED backupVars
  BY <1>26, SMT
    DEF backupVars, ExportInv, ExportsReleased, Archiving, Ended
<1>27. QED
  BY <1>1, <1>2, <1>3, <1>4, <1>5, <1>6, <1>7, <1>8, <1>9, <1>10, <1>11, <1>12, <1>13,
     <1>14, <1>15, <1>16, <1>17, <1>18, <1>19, <1>20, <1>21, <1>22, <1>23, <1>24, <1>25,
     <1>26
    DEF BackupNext, Archive, BackupDo

(* Only the task that archives exports volumes, and releases them.          *)
THEOREM ExportInvariant == BackupSpec => []ExportInv
<1>1. BackupInit => ExportInv
  BY SMT DEF BackupInit, ExportInv, ExportsReleased, Archiving
<1> QED
  BY <1>1, ExportStep, PTL DEF BackupSpec

(* A backup releases the volumes it exports, whatever fails or is           *)
(* cancelled, except around the try statement.                              *)
THEOREM VolumesAreReleased == BackupSpec => []ExportsReleased
<1>1. ExportInv => ExportsReleased
  BY DEF ExportInv
<1> QED
  BY <1>1, ExportInvariant, PTL

(* What follows an element is one too.                                      *)
LEMMA FollowsType ==
  ASSUME StreamTypeOK, NEW e \in Items
  PROVE  /\ Header \in Items /\ FINISHED \in Items /\ ERROR \in Items
         /\ \A f \in 1..NFiles, p \in Nat : DataOf(f, p) \in Int /\ ChunkOf(f, p) \in Items
<1>1. ASSUME NEW f \in 1..NFiles, NEW p \in Nat
      PROVE  DataOf(f, p) \in Int
  <2>1. size[f] \in Int /\ (p - 1) * ChunkSize \in Int
    BY SizesAssumption, SMT DEF StreamTypeOK
  <2> QED
    BY <2>1, SizesAssumption, SMT DEF DataOf
<1> QED
  BY <1>1, SizesAssumption, SMT DEF Items, Header, FINISHED, ERROR, ChunkOf

(* A part of the stream is in order, and what comes next follows it.        *)
LEMMA OrderedPrefix ==
  ASSUME NEW s \in Seq(Items), NEW t \in Seq(Items), t # <<>>, s # <<>>,
         InOrder(s \o <<>> \o t)
  PROVE  InOrder(s) /\ Last(s) # FINISHED /\ Follows(Last(s)) = Head(t)
<1> DEFINE all == s \o <<>> \o t
<1>1. /\ all \in Seq(Items) /\ DOMAIN all = 1..(Len(s) + Len(t))
      /\ \A i \in 1..Len(s) : all[i] = s[i]
      /\ all[Len(s) + 1] = t[1]
  BY ConcatProperties, ConcatEmptySeq, SMT
<1>2. Len(s) \in Nat \ {0} /\ Len(t) \in Nat \ {0} /\ Head(t) = t[1] /\ DOMAIN s = 1..Len(s)
  BY SMT
<1>3. ASSUME NEW i \in DOMAIN s
      PROVE  IF i = 1 THEN s[i] = Header ELSE s[i - 1] # FINISHED /\ s[i] = Follows(s[i - 1])
  <2>1. i \in DOMAIN all /\ all[i] = s[i] /\ (i # 1 => all[i - 1] = s[i - 1])
    BY <1>1, <1>2, SMT
  <2> QED
    BY <2>1 DEF InOrder
<1>4. Len(s) + 1 \in DOMAIN all /\ Len(s) + 1 # 1 /\ (Len(s) + 1) - 1 = Len(s)
      /\ all[Len(s)] = s[Len(s)]
  BY <1>1, <1>2, SMT
<1>5. PICK k : k = Len(s) + 1
  OBVIOUS
<1>6. k \in DOMAIN all /\ k # 1 /\ all[k - 1] = s[Len(s)] /\ all[k] = t[1]
  BY <1>1, <1>4, <1>5
<1>7. all[k - 1] # FINISHED /\ all[k] = Follows(all[k - 1])
  BY <1>6 DEF InOrder
<1> QED
  BY <1>2, <1>3, <1>6, <1>7 DEF InOrder, Last

(* The stream stays in order when what follows is added.                    *)
LEMMA OrderedAppend ==
  ASSUME NEW s \in Seq(Items), NEW e \in Items, s # <<>>, InOrder(s),
         Last(s) # FINISHED, Follows(Last(s)) = e
  PROVE  /\ Append(s, e) # <<>> /\ InOrder(Append(s, e)) /\ Last(Append(s, e)) = e
<1>0. PICK all : all = Append(s, e)
  OBVIOUS
<1>1. /\ all \in Seq(Items) /\ DOMAIN all = 1..(Len(s) + 1) /\ all # <<>>
      /\ \A i \in 1..Len(s) : all[i] = s[i]
      /\ all[Len(s) + 1] = e /\ Len(all) = Len(s) + 1
  BY <1>0, AppendProperties, SMT
<1>2. ASSUME NEW i \in DOMAIN all
      PROVE  IF i = 1 THEN all[i] = Header
             ELSE all[i - 1] # FINISHED /\ all[i] = Follows(all[i - 1])
  <2>1. CASE i \in DOMAIN s
    <3>1. i \in 1..Len(s) /\ all[i] = s[i] /\ (i # 1 => all[i - 1] = s[i - 1])
      BY <1>1, <2>1, SMT
    <3> QED
      BY <2>1, <3>1 DEF InOrder
  <2>2. CASE i \notin DOMAIN s
    <3>1. i = Len(s) + 1 /\ i # 1 /\ i - 1 = Len(s) /\ all[i] = e /\ all[Len(s)] = s[Len(s)]
      BY <1>1, <2>2, SMT
    <3>2. all[i - 1] = Last(s)
      BY <3>1 DEF Last
    <3> QED
      BY <3>1, <3>2
  <2> QED
    BY <2>1, <2>2
<1> QED
  BY <1>0, <1>1, <1>2 DEF InOrder, Last

(* The stream is the same when an element moves along.                      *)
LEMMA HeadMoves ==
  ASSUME NEW s \in Seq(Items), NEW t \in Seq(Items), t # <<>>
  PROVE  s \o <<Head(t)>> \o Tail(t) = s \o <<>> \o t
<1>1. s \o <<Head(t)>> = Append(s, Head(t)) /\ s \o <<>> = s /\ Head(t) \in Items
      /\ Append(s, Head(t)) \in Seq(Items) /\ Tail(t) \in Seq(Items)
  BY AppendIsConcat, ConcatEmptySeq, HeadTailProperties, AppendProperties
<1> DEFINE a == Append(s, Head(t)) \o Tail(t)
           b == s \o t
<1>2. /\ a \in Seq(Items) /\ b \in Seq(Items) /\ Len(a) = Len(s) + Len(t) /\ Len(b) = Len(a)
      /\ \A i \in 1..Len(a) : a[i] = b[i]
  BY <1>1, ConcatProperties, AppendProperties, HeadTailProperties, SMT
<1>3. a = b
  BY <1>2, SeqEqual
<1> QED
  BY <1>1, <1>3

(* The stream is the same when the element that is sent arrives.            *)
LEMMA SentMoves ==
  ASSUME NEW s \in Seq(Items), NEW t \in Seq(Items), NEW e \in Items
  PROVE  Append(s, e) \o <<>> \o t = s \o <<e>> \o t
<1>1. s \o <<e>> = Append(s, e) /\ Append(s, e) \in Seq(Items) /\ Append(s, e) \o <<>> = Append(s, e)
  BY AppendIsConcat, ConcatEmptySeq, AppendProperties
<1> QED
  BY <1>1

(* What is put into the queue is added to the end of the stream.            *)
LEMMA PutAtEnd ==
  ASSUME NEW s \in Seq(Items), NEW u \in Seq(Items), NEW t \in Seq(Items), NEW e \in Items
  PROVE  s \o u \o Append(t, e) = Append(s \o u \o t, e)
<1>1. s \o u \in Seq(Items) /\ Append(t, e) = t \o <<e>> /\ <<e>> \in Seq(Items)
      /\ s \o u \o t \in Seq(Items)
  BY AppendIsConcat, ConcatProperties, SMT
<1>2. (s \o u) \o (t \o <<e>>) = ((s \o u) \o t) \o <<e>>
  BY <1>1, ConcatAssociative
<1>3. Append(s \o u \o t, e) = (s \o u \o t) \o <<e>>
  BY <1>1, AppendIsConcat
<1> QED
  BY <1>1, <1>2, <1>3

(* The stream is one of elements.                                           *)
LEMMA StreamType ==
  ASSUME StreamTypeOK
  PROVE  Unsent \in Seq(Items) /\ Stream \in Seq(Items)
<1>1. Unsent \in Seq(Items)
  BY SMT DEF Unsent, StreamTypeOK
<1>2. received \o Unsent \in Seq(Items)
  BY <1>1, ConcatProperties DEF StreamTypeOK
<1> QED
  BY <1>1, <1>2, ConcatProperties DEF Stream, StreamTypeOK

(* The sizes of a backup are what they were when it was asked for.          *)
LEMMA SizesStay == [BackupNext]_backupVars => size' = size
  BY SMT DEF BackupNext, Archive, BackupDo, backupVars, Execute, Loaded, Returns, Export,
     Spawn, Chunk, Put, Cleanup, WaitTar, Finish, ArchiveStep, ChunkStep,
     Get, Send, ServiceEnds,
     SendStep, WatchService, WatchSender, CallService, MakeHeader, ArchiveEnded, PutError,
     ServiceAwaited, ErrorSent, Sent, Closed, End, Main, MainStep, Cancel, Request

(* What is in order does not depend on anything but the sizes.              *)
LEMMA SameOrder ==
  ASSUME size' = size, NEW s
  PROVE  (InOrder(s)' <=> InOrder(s)) /\ (Whole(s)' <=> Whole(s)) /\ Follows(s)' = Follows(s)
<1>1. \A e : (Follows(e))' = Follows(e)
  BY DEF Follows, ChunkOf, DataOf
<1>2. InOrder(s)' <=> InOrder(s)
  BY <1>1 DEF InOrder
<1> QED
  BY <1>1, <1>2 DEF Whole

(* The queue and what is sent of it keep their types.                       *)
LEMMA StreamTypeStep == StreamTypeOK /\ ExportInv /\ [BackupNext]_backupVars => StreamTypeOK'
<1> SUFFICES ASSUME StreamTypeOK, ExportInv, [BackupNext]_backupVars
             PROVE  StreamTypeOK'
  OBVIOUS
<1>1. size' = size
  BY SizesStay
<1>2. Header \in Items /\ FINISHED \in Items /\ ERROR \in Items
  BY SizesAssumption, SMT DEF Items, Header, FINISHED, ERROR
<1>3. ASSUME NEW c \in Calls, Loaded(c)
     PROVE  StreamTypeOK'
  <2>1. <<>> \in Seq(Items)
    BY SMT
  <2>2. /\ received' \in {received, <<>>} /\ queue' \in {queue, <<>>} /\ sending' = sending
        /\ file' \in {file, 1} /\ part' \in {part, 1}
    BY <1>3, Zenon DEF Loaded
  <2>3. received' \in Seq(Items) /\ queue' \in Seq(Items) /\ sending' \in Items
    BY <2>1, <2>2, Zenon DEF StreamTypeOK
  <2>4. file' \in 1..NFiles /\ part' \in Nat \ {0}
    BY <2>2, SizesAssumption, SMT DEF StreamTypeOK
  <2> QED
    BY <1>1, <2>3, <2>4 DEF StreamTypeOK
<1>4. CASE Put
  <2>1. ChunkOf(file, part) \in Items
    BY <1>2, FollowsType, SMT DEF StreamTypeOK
  <2>2. queue' \in Seq(Items)
    BY <1>4, <2>1, AppendProperties DEF Put, StreamTypeOK
  <2> QED
    BY <1>1, <1>4, <2>2, SMT DEF Put, ArchiveStep, ChunkStep, StreamTypeOK, Sending
<1>5. CASE Finish
  <2>1. queue' \in Seq(Items)
    BY <1>2, <1>5, AppendProperties DEF Finish, StreamTypeOK
  <2> QED
    BY <1>1, <1>5, <2>1, SMT DEF Finish, ArchiveStep, ChunkStep, StreamTypeOK, Sending
<1>6. CASE PutError
  <2>1. queue' \in Seq(Items)
    BY <1>2, <1>6, AppendProperties DEF PutError, StreamTypeOK
  <2> QED
    BY <1>1, <1>6, <2>1, SMT DEF PutError, MainStep, StreamTypeOK
<1>7. CASE Get
  <2>1. queue' \in Seq(Items) /\ sending' \in Items
    BY <1>7, HeadTailProperties DEF Get, StreamTypeOK
  <2> QED
    BY <1>1, <1>7, <2>1, SMT DEF Get, SendStep, StreamTypeOK, Archiver
<1>8. CASE Send
  <2>1. received' \in {received, Append(received, sending)}
    BY <1>8, Zenon DEF Send
  <2>2. received' \in Seq(Items)
    BY <2>1, AppendProperties DEF StreamTypeOK
  <2> QED
    BY <1>1, <1>8, <2>2, SMT DEF Send, SendStep, StreamTypeOK, Archiver
<1>9. CASE MakeHeader
  <2>1. <<Header>> \in Seq(Items)
    BY <1>2, SMT
  <2> QED
    BY <1>1, <1>9, <2>1, Zenon DEF MakeHeader, MainStep, StreamTypeOK
<1>10. CASE WaitTar
  BY <1>1, <1>10, SizesAssumption, SMT DEF WaitTar, ArchiveStep, ChunkStep, Fails,
     StreamTypeOK, Sending
<1>11. CASE Export \/ Spawn \/ Chunk \/ Cleanup
  BY <1>1, <1>11, SMT DEF Export, Spawn, Chunk, Cleanup, ArchiveStep, ChunkStep, Fails,
     StreamTypeOK, Sending
<1>12. ASSUME UNCHANGED <<file, part, received, queue, sending>>
       PROVE  StreamTypeOK'
  BY <1>1, <1>12 DEF StreamTypeOK
<1>13. ASSUME \/ \E c \in Calls : Execute(c) \/ Returns(c)
              \/ ServiceEnds \/ WatchService \/ WatchSender \/ CallService \/ ArchiveEnded
              \/ ServiceAwaited \/ ErrorSent \/ Sent \/ Closed \/ End \/ Cancel
              \/ UNCHANGED backupVars
       PROVE  UNCHANGED <<file, part, received, queue, sending>>
  BY <1>13, SMT DEF Execute, Returns, ServiceEnds, WatchService, WatchSender, CallService,
     ArchiveEnded, ServiceAwaited, ErrorSent, Sent, Closed, End, Cancel, backupVars,
     Archiver, Sending, SendStep, Main, MainStep
<1> QED
  BY <1>3, <1>4, <1>5, <1>6, <1>7, <1>8, <1>9, <1>10, <1>11, <1>12, <1>13
     DEF BackupNext, Archive, BackupDo

(* The stream stays in order when nothing moves.                            *)
LEMMA SameStream ==
  ASSUME size' = size, UNCHANGED <<received, sender, sending, queue>>
  PROVE  /\ Stream' = Stream /\ (InOrder(Stream)' <=> InOrder(Stream))
         /\ (UNCHANGED <<at, why, file, part>> => (Continues' <=> Continues))
<1>1. Stream' = Stream
  BY DEF Stream, Unsent
<1>2. InOrder(Stream)' <=> InOrder(Stream)
  BY <1>1 DEF InOrder, Follows, ChunkOf, DataOf
<1>3. UNCHANGED <<at, why, file, part>> => (Continues' <=> Continues)
  BY <1>1 DEF Continues, Last, Follows, ChunkOf, DataOf
<1> QED
  BY <1>1, <1>2, <1>3

(* What the target has stays whole.                                         *)
LEMMA SameReceived ==
  ASSUME size' = size, received' = received
  PROVE  Whole(received)' <=> Whole(received)
BY DEF Whole, InOrder, Last, Follows, ChunkOf, DataOf

(* The archiving task goes on, or is cancelled, without adding anything.    *)
LEMMA ArchiverGoesOn ==
  ASSUME StreamTypeOK, size' = size, UNCHANGED <<received, sender, sending, queue>>,
         Stream # <<>>, Continues, why \in {"no", "failed", "cancelled"},
         Export \/ Spawn \/ Chunk \/ Cleanup \/ WaitTar \/ CancelArchive
  PROVE  Continues'
<1>1. PICK e : e = Last(Stream)
  OBVIOUS
<1>2. e \in Items
  BY <1>1, StreamType, SMT DEF Last
<1>3. Stream' = Stream
  BY SameStream
<1>4. Last(Stream)' = e /\ Follows(e)' = Follows(e)
      /\ \A f, p : ChunkOf(f, p)' = ChunkOf(f, p)
  BY <1>1, <1>3 DEF Last, Follows, ChunkOf, DataOf
<1>5. CASE Export
  BY <1>1, <1>3, <1>4, <1>5, SMT DEF Continues, Export, Fails, Follows, ChunkOf, DataOf, Last
<1>8. CASE Spawn
  BY <1>1, <1>3, <1>4, <1>8, SMT DEF Continues, Spawn, Fails, Follows, ChunkOf, DataOf, Last
<1>9. CASE Chunk
  BY <1>1, <1>3, <1>4, <1>9, SMT DEF Continues, Chunk, Fails, Follows, ChunkOf, DataOf, Last
<1>10. CASE Cleanup
  BY <1>1, <1>3, <1>4, <1>10, SMT DEF Continues, Cleanup, Fails, Follows, ChunkOf, DataOf, Last
<1>6. CASE WaitTar
  BY <1>1, <1>2, <1>3, <1>4, <1>6, SMT DEF Continues, WaitTar, Fails, StreamTypeOK,
     Follows, ChunkOf, DataOf, Last
<1>7. CASE CancelArchive
  BY <1>1, <1>3, <1>4, <1>7, SMT DEF Continues, CancelArchive, Follows, ChunkOf, DataOf, Last
<1> QED
  BY <1>5, <1>6, <1>7, <1>8, <1>9, <1>10

(* A chunk or the end is put into the queue.                                *)
LEMMA ArchiverPuts ==
  ASSUME StreamTypeOK, size' = size, UNCHANGED <<received, sender, sending>>,
         Stream # <<>>, InOrder(Stream), Continues, Put \/ Finish
  PROVE  Stream' # <<>> /\ InOrder(Stream)' /\ Continues'
<1>1. PICK e : e = Last(Stream)
  OBVIOUS
<1>2. PICK x : x = IF at = "put" THEN ChunkOf(file, part) ELSE FINISHED
  OBVIOUS
<1>3. PICK s : s = Stream
  OBVIOUS
<1>4. x \in Items /\ s \in Seq(Items) /\ Unsent \in Seq(Items)
  BY <1>2, <1>3, StreamType, FollowsType, SMT DEF StreamTypeOK
<1>5. queue' = Append(queue, x)
  BY <1>2, SMT DEF Put, Finish
<1>6. Stream' = Append(s, x)
  <2>1. PICK r, u, q : r = received /\ u = Unsent /\ q = queue
    OBVIOUS
  <2>2. received' = r /\ Unsent' = u /\ queue' = Append(q, x) /\ s = r \o u \o q
    BY <1>3, <1>5, <2>1 DEF Stream, Unsent
  <2>3. r \o u \o Append(q, x) = Append(r \o u \o q, x)
    BY <1>4, <2>1, PutAtEnd DEF StreamTypeOK
  <2> QED
    BY <2>2, <2>3 DEF Stream
<1>7. Last(s) # FINISHED /\ Follows(Last(s)) = x
  BY <1>2, <1>3, Zenon DEF Continues, Put, Finish
<1>8. PICK t : t = Append(s, x)
  OBVIOUS
<1>9. t # <<>> /\ InOrder(t) /\ Last(t) = x
  BY <1>3, <1>4, <1>7, <1>8, OrderedAppend
<1>10. InOrder(Stream)'
  BY <1>6, <1>8, <1>9 DEF InOrder, Follows, ChunkOf, DataOf
<1>11. Last(Stream)' = x
  BY <1>6, <1>8, <1>9 DEF Last
<1>12. CASE Put
  <2>1. x.file = file /\ x.part = part /\ x.data = DataOf(file, part) /\ x # FINISHED
    BY <1>2, <1>12, SMT DEF Put, ChunkOf, FINISHED, StreamTypeOK
  <2>2. at' \in {"chunk", "cleanup"} /\ file' = file
        /\ (at' = "chunk" => x.data = ChunkSize /\ part' = part + 1)
        /\ (at' = "cleanup" => x.data # ChunkSize)
    BY <1>12, <2>1 DEF Put
  <2> QED
    BY <1>6, <1>8, <1>9, <1>10, <1>11, <2>1, <2>2, SMT DEF Continues, Follows, ChunkOf, DataOf
<1>13. CASE Finish
  BY <1>2, <1>6, <1>8, <1>9, <1>10, <1>11, <1>13, SMT DEF Continues, Finish
<1> QED
  BY <1>12, <1>13

(* The sender takes the next element.                                       *)
LEMMA SenderGets ==
  ASSUME StreamTypeOK, size' = size, Get, UNCHANGED <<at, why, file, part>>,
         Stream # <<>>, InOrder(Stream), Continues
  PROVE  /\ sender' = "sending" => Stream' # <<>> /\ InOrder(Stream)' /\ Continues'
         /\ sender' = "done" => Whole(received)'
<1>1. queue # <<>> /\ Unsent = <<>> /\ received' = received /\ queue' = Tail(queue)
  BY DEF Get, Unsent
<1>2. PICK s : s = received
  OBVIOUS
<1>3. PICK t : t = queue
  OBVIOUS
<1>4. s \in Seq(Items) /\ t \in Seq(Items) /\ t # <<>> /\ Stream = s \o <<>> \o t
  BY <1>1, <1>2, <1>3 DEF Stream, StreamTypeOK
<1>5. CASE sender' = "sending"
  <2>1. sending' = Head(t)
    BY <1>3, <1>5 DEF Get
  <2>2. Stream' = s \o <<Head(t)>> \o Tail(t)
    BY <1>1, <1>2, <1>3, <1>5, <2>1 DEF Stream, Unsent
  <2>3. Stream' = Stream
    BY <1>4, <2>2, HeadMoves
  <2>4. InOrder(Stream)'
    BY <2>3 DEF InOrder, Follows, ChunkOf, DataOf
  <2>5. Continues'
    BY <2>3 DEF Continues, Last, Follows, ChunkOf, DataOf
  <2> QED
    BY <1>5, <2>3, <2>4, <2>5
<1>6. CASE sender' = "done"
  <2>1. Head(t) \in {FINISHED, ERROR}
    BY <1>3, <1>6 DEF Get
  <2>2. s # <<>>
    <3>1. SUFFICES ASSUME s = <<>>
                   PROVE  FALSE
      OBVIOUS
    <3>2. Stream = t
      BY <1>4, <3>1, ConcatEmptySeq
    <3>3. 1 \in DOMAIN t /\ t[1] = Head(t)
      BY <1>4, SMT
    <3>4. t[1] = Header
      BY <3>2, <3>3 DEF InOrder
    <3> QED
      BY <2>1, <3>3, <3>4, SMT DEF Header, FINISHED, ERROR
  <2>3. InOrder(s) /\ Last(s) # FINISHED /\ Follows(Last(s)) = Head(t)
    BY <1>4, <2>2, OrderedPrefix
  <2>4. Head(t) # ERROR
    <3>1. Last(s) \in Items
      BY <1>4, <2>2, SMT DEF Last
    <3> QED
      BY <2>3, <3>1, SMT DEF Follows, ChunkOf, FINISHED, ERROR, Items
  <2>5. Whole(received)
    BY <1>2, <2>1, <2>2, <2>3, <2>4 DEF Whole
  <2> QED
    BY <1>1, <1>6, <2>5, SameReceived
<1> QED
  BY <1>5, <1>6

(* The sender has sent an element.                                          *)
LEMMA SenderSends ==
  ASSUME StreamTypeOK, size' = size, Send, UNCHANGED <<at, why, file, part>>,
         Stream # <<>>, InOrder(Stream), Continues, sender' = "get"
  PROVE  Stream' # <<>> /\ InOrder(Stream)' /\ Continues'
<1>1. /\ received' = Append(received, sending) /\ Unsent = <<sending>> /\ Unsent' = <<>>
      /\ queue' = queue
  BY DEF Send, Unsent
<1>2. Stream' = Stream
  BY <1>1, SentMoves DEF Stream, StreamTypeOK
<1>3. InOrder(Stream)'
  BY <1>2 DEF InOrder, Follows, ChunkOf, DataOf
<1>4. Continues'
  BY <1>2 DEF Continues, Last, Follows, ChunkOf, DataOf
<1> QED
  BY <1>2, <1>3, <1>4

(* Every step keeps the stream in order and the mark of success true.       *)
LEMMA StreamStep == StreamInv /\ ExportInv /\ [BackupNext]_backupVars => StreamInv'
<1> SUFFICES ASSUME StreamInv, ExportInv, [BackupNext]_backupVars
             PROVE  StreamInv'
  OBVIOUS
<1>1. size' = size /\ StreamTypeOK /\ StreamTypeOK'
  BY SizesStay, StreamTypeStep DEF StreamInv
<1>2. received' = received => (Whole(received)' <=> Whole(received))
  BY <1>1, SameReceived
<1>3. UNCHANGED <<received, sender, sending, queue>> =>
        /\ Stream' = Stream /\ (InOrder(Stream)' <=> InOrder(Stream))
        /\ (UNCHANGED <<at, why, file, part>> => (Continues' <=> Continues))
  BY <1>1, SameStream
<1>4. at \in Archiving => phase = "archive"
  BY DEF ExportInv
<1>5. ASSUME NEW c \in Calls, Execute(c) \/ Returns(c)
     PROVE  StreamInv'
  BY <1>1, <1>2, <1>3, <1>5, SMT
    DEF Execute, Returns, StreamInv, Flows, Archiver, Sending
<1>6. ASSUME NEW c \in Calls, Loaded(c)
     PROVE  StreamInv'
  <2>1. CASE call'[c] = "running"
    <3>1. phase = "none"
      BY <1>6, <2>1, SMT DEF Loaded, ExportInv
    <3>2. /\ phase' \in {"service", "header"} /\ received' = <<>> /\ file' = 1 /\ ~stamped'
          /\ sender' = sender
      BY <1>6, <2>1, SMT DEF Loaded, ExportInv
    <3>3. sender = "none"
      BY <3>1 DEF StreamInv
    <3> QED
      BY <1>1, <3>2, <3>3, SMT DEF StreamInv, Flows
  <2>2. CASE call'[c] # "running"
    <3>1. UNCHANGED <<phase, result, at, why, file, part, queue, received, stamped, sender, sending>>
      BY <1>6, <2>2, SMT DEF Loaded, ExportInv
    <3> QED
      BY <1>1, <1>2, <1>3, <3>1, SMT DEF StreamInv, Flows
  <2> QED
    BY <2>1, <2>2
<1>7. CASE Export \/ Spawn \/ Chunk \/ Cleanup \/ WaitTar
  <2>1. UNCHANGED <<received, sender, sending, queue, phase, result, stamped>>
    BY <1>7, SMT DEF Export, Spawn, Chunk, Cleanup, WaitTar, ArchiveStep, ChunkStep, Sending
  <2>2. Flows => Continues'
    BY <1>1, <1>7, <2>1, ArchiverGoesOn DEF StreamInv, ExportInv
  <2>3. phase = "archive"
    BY <1>4, <1>7, SMT DEF Export, Spawn, Chunk, Cleanup, WaitTar, Archiving
  <2> QED
    BY <1>1, <1>2, <1>3, <2>1, <2>2, <2>3, Zenon DEF StreamInv, Flows
<1>8. CASE Put \/ Finish
  <2>1. UNCHANGED <<received, sender, sending, phase, result, stamped>>
    BY <1>8, SMT DEF Put, Finish, ArchiveStep, ChunkStep, Sending
  <2>2. Flows => Stream' # <<>> /\ InOrder(Stream)' /\ Continues'
    BY <1>1, <1>8, <2>1, ArchiverPuts DEF StreamInv
  <2>3. phase = "archive"
    BY <1>4, <1>8, SMT DEF Put, Finish, Archiving
  <2> QED
    BY <1>1, <1>2, <2>1, <2>2, <2>3, Zenon DEF StreamInv, Flows
<1>9. CASE Get
  <2>1. UNCHANGED <<at, why, file, part, received, phase, result, stamped>>
    BY <1>9, SMT DEF Get, SendStep, Archiver
  <2>2. Flows =>
          /\ (sender' = "sending" => Stream' # <<>> /\ InOrder(Stream)' /\ Continues')
          /\ (sender' = "done" => Whole(received)')
    BY <1>1, <1>9, <2>1, SenderGets DEF StreamInv
  <2>3. sender = "get" /\ sender' \in {"sending", "done"}
    BY <1>9 DEF Get
  <2> QED
    BY <1>1, <1>2, <2>1, <2>2, <2>3, SMT DEF StreamInv, Flows
<1>10. CASE Send
  <2>1. UNCHANGED <<at, why, file, part, phase, result, stamped>>
    BY <1>10, SMT DEF Send, SendStep, Archiver
  <2>2. Flows /\ sender' = "get" => Stream' # <<>> /\ InOrder(Stream)' /\ Continues'
    BY <1>1, <1>10, <2>1, SenderSends DEF StreamInv
  <2>3. sender = "sending" /\ sender' \in {"get", "failed"}
    BY <1>10 DEF Send
  <2> QED
    BY <1>1, <1>2, <2>1, <2>2, <2>3, SMT DEF StreamInv, Flows
<1>11. CASE WatchSender
  <2>1. /\ UNCHANGED <<received, sender, sending, queue, phase, result, stamped, file>>
        /\ sender \in Ended
    BY <1>11, SMT DEF WatchSender, Sending
  <2>2. ~Flows /\ (at = "done" => at' = "done")
    BY <1>11, SMT DEF WatchSender, CancelArchive, Flows, Ended
  <2> QED
    BY <1>1, <1>2, <2>1, <2>2, Zenon DEF StreamInv, Flows
<1>12. CASE MakeHeader
  <2>1. CASE phase' = "archive"
    <3>1. /\ received' = <<>> /\ sender' = "get" /\ queue' = <<Header>> /\ at' = "export"
          /\ file' = 1 /\ stamped' = stamped
      BY <1>12, <2>1, SMT DEF MakeHeader, MainStep, Over, StreamInv
    <3>2. Stream' = <<Header>>
      BY <3>1, SMT DEF Stream, Unsent
    <3>3. InOrder(Stream)'
      BY <3>2, SMT DEF InOrder
    <3>4. Continues'
      BY <3>1, <3>2, SizesAssumption, SMT DEF Continues, Last, Follows, ChunkOf, Header, FINISHED
    <3> QED
      BY <1>1, <1>12, <2>1, <3>1, <3>2, <3>3, <3>4, SMT DEF StreamInv, Flows, MakeHeader
  <2>2. CASE phase' = "over"
    BY <1>1, <1>2, <1>3, <1>12, <2>2, SMT DEF MakeHeader, MainStep, Over, StreamInv, Flows
  <2> QED
    BY <1>12, <2>1, <2>2 DEF MakeHeader, Over
<1>13. CASE ServiceEnds
  BY <1>1, <1>2, <1>3, <1>13, SMT DEF ServiceEnds, SendStep, Archiver, Sending, StreamInv, Flows
<1>14. CASE WatchService
  BY <1>1, <1>2, <1>3, <1>14, SMT DEF WatchService, CancelSender, Archiver, Request, StreamInv, Flows, Ended
<1>15. CASE CallService
  BY <1>1, <1>2, <1>3, <1>15, SMT DEF CallService, MainStep, Over, StreamInv, Flows, Ended
<1>16. CASE ArchiveEnded
  BY <1>1, <1>2, <1>3, <1>16, SMT DEF ArchiveEnded, Main, MainStep, StreamInv, Flows, Ended
<1>17. CASE PutError
  BY <1>1, <1>2, <1>3, <1>17, SMT DEF PutError, MainStep, StreamInv, Flows, Ended
<1>18. CASE ServiceAwaited
  BY <1>1, <1>2, <1>3, <1>18, SMT DEF ServiceAwaited, Main, MainStep, Close, StreamInv, Flows, Ended
<1>19. CASE ErrorSent
  BY <1>1, <1>2, <1>3, <1>19, SMT DEF ErrorSent, Main, MainStep, Close, StreamInv, Flows, Ended
<1>20. CASE Sent
  BY <1>1, <1>2, <1>3, <1>20, SMT DEF Sent, Main, MainStep, Close, StreamInv, Flows, Ended
<1>21. CASE Closed
  BY <1>1, <1>2, <1>3, <1>21, SMT DEF Closed, Main, MainStep, StreamInv, Flows, Ended
<1>22. CASE End
  <2>1. /\ phase = "ending" /\ phase' = "over" /\ sender' = "none" /\ received' = received
        /\ (stamped' => result = "success")
    BY <1>22, Zenon DEF End, MainStep
  <2> QED
    BY <1>1, <1>2, <2>1, SMT DEF StreamInv, Flows
<1>23. CASE Cancel
  <2>1. UNCHANGED <<file, part, queue, received, sending, stamped>>
    BY <1>23 DEF Cancel
  <2>2. CASE phase \in {"service", "header"}
    <3>1. phase' = "over" /\ UNCHANGED sender
      BY <1>23, <2>2, SMT DEF Cancel, Over
    <3> QED
      BY <1>1, <1>2, <2>1, <2>2, <3>1, SMT DEF StreamInv, Flows
  <2>3. CASE phase = "archive" /\ at \notin Ended
    <3>1. phase' = phase /\ UNCHANGED <<result, sender>>
      BY <1>23, <2>3, SMT DEF Cancel
    <3>2. Flows => Continues'
      BY <1>1, <1>23, <2>1, <2>3, <3>1, ArchiverGoesOn DEF StreamInv, ExportInv, Cancel
    <3> QED
      BY <1>1, <1>2, <1>3, <2>1, <2>3, <3>1, <3>2, Zenon DEF StreamInv, Flows
  <2>4. CASE phase = "archive" /\ at \in Ended
    <3>1. phase' = "put_error"
      BY <1>23, <2>4, SMT DEF Cancel
    <3> QED
      BY <1>1, <1>2, <2>1, <2>4, <3>1, SMT DEF StreamInv, Flows
  <2>5. CASE phase \in {"put_error", "error_service", "closed", "error_send", "send"}
    <3>1. phase' \in {"closed", "ending"} /\ result' = "error"
      BY <1>23, <2>5, SMT DEF Cancel, Close
    <3> QED
      BY <1>1, <1>2, <2>1, <2>5, <3>1, SMT DEF StreamInv, Flows
  <2>6. CASE phase \notin {"service", "header", "archive", "put_error", "error_service",
                         "closed", "error_send", "send"}
    <3>1. UNCHANGED <<phase, result, sender>>
      BY <1>23, <2>6, SMT DEF Cancel
    <3> QED
      BY <1>1, <1>2, <2>1, <2>6, <3>1, SMT DEF StreamInv, Flows
  <2> QED
    BY <2>2, <2>3, <2>4, <2>5, <2>6
<1>24. CASE UNCHANGED backupVars
  BY <1>1, <1>2, <1>3, <1>24, SMT DEF backupVars, StreamInv, Flows
<1> QED
  BY <1>5, <1>6, <1>7, <1>8, <1>9, <1>10, <1>11, <1>12, <1>13, <1>14, <1>15, <1>16, <1>17, <1>18, <1>19, <1>20, <1>21, <1>22, <1>23, <1>24
     DEF BackupNext, Archive, BackupDo

(* What was received, is being sent and waits is in order, and the archiver  *)
(* adds what follows; with it, only the sender that met the end succeeds.   *)
THEOREM StreamInvariant == BackupSpec => []StreamInv
<1>1. BackupInit => StreamInv
  <2> SUFFICES ASSUME BackupInit
               PROVE  StreamInv
    OBVIOUS
  <2>1. Header \in Items /\ <<>> \in Seq(Items)
    BY SizesAssumption, SMT DEF Items, Header
  <2> QED
    BY <2>1, SizesAssumption, SMT DEF BackupInit, StreamInv, StreamTypeOK, Flows
<1> QED
  BY <1>1, StreamStep, ExportInvariant, PTL DEF BackupSpec

(* A backup is marked as done only when its target has all of it: the       *)
(* header and every chunk of every file, once and in order.                 *)
THEOREM ArchivesAreComplete == BackupSpec => []ArchiveComplete
<1>1. StreamInv => ArchiveComplete
  BY DEF StreamInv, ArchiveComplete
<1> QED
  BY <1>1, StreamInvariant, PTL

----------------------------------------------------------------------------
(* BlockDevices.                                                           *)

(* Every device a task is made for is in a port, for qubes there are.        *)
LEMMA ItemIsOK ==
    ASSUME NEW p \in Ports, NEW F \in SUBSET Fronts, NEW M
    PROVE  ItemOK(Item(p, F, M))
<1> DEFINE D == {f \in F : Wish(f, p, M) # {}}
<1> DEFINE w == [f \in D |-> CHOOSE m \in Wish(f, p, M) : TRUE]
<1>1. Item(p, F, M) = [port |-> p, dev |-> exposed[p], wants |-> w]
  BY DEF Item
<1>2. DOMAIN w = D /\ D \subseteq Fronts
  OBVIOUS
<1> HIDE DEF w
<1> QED
  BY <1>1, <1>2 DEF ItemOK

(* A new task of such items is in order.                                     *)
LEMMA NewTask ==
    ASSUME NEW id, NEW items, items # {}, \A i \in items : ItemOK(i)
    PROVE  TaskOK(Task(id, items))
  BY SMT DEF TaskOK, Task

(* The tasks after a list of devices was compared with the cache.            *)
LEMMA AddedItems == \A i \in ToAttach : ItemOK(i)
<1> SUFFICES ASSUME NEW i \in ToAttach PROVE ItemOK(i)
  OBVIOUS
<1> DEFINE F == {f \in Fronts : Running(f)}
<1> DEFINE G == {p \in Added : Current(p) = Free}
<1>0. i \in {Item(p, F, Modes) : p \in G}
  BY Zenon DEF ToAttach
<1> HIDE DEF G
<1>1. \E p \in G : i = Item(p, F, Modes)
  BY <1>0, Zenon
<1>2. G \subseteq Ports /\ F \in SUBSET Fronts
  BY DEF G, Added
<1> HIDE DEF F
<1> QED
  BY <1>1, <1>2, ItemIsOK

(* An attempt to attach the device of item i ends its task, or its item.     *)
LEMMA AttemptKeepsTasks ==
    ASSUME TaskInv, NEW t \in tasks, NEW i \in t.items, NEW f, NEW known,
           attach_and_notify(t, i, f, known)
    PROVE  TaskInv'
<1>1. CASE Drop(t, i)
  BY <1>1 DEF Drop, TaskInv
<1>2. CASE NextItem(t, i)
  <2>1. CASE t.items = {i}
    BY <1>2, <2>1 DEF NextItem, TaskInv
  <2>2. CASE t.items # {i}
    <3>1. t.items \ {i} # {} /\ t.items \ {i} \in SUBSET t.items
      BY <2>2
    <3>2. TaskOK([t EXCEPT !.items = t.items \ {i}, !.stage = "ready", !.now = None,
                           !.known = FALSE])
      BY <3>1, SMT DEF TaskInv, TaskOK
    <3>3. QED
      BY <1>2, <2>2, <3>2 DEF NextItem, TaskInv
  <2>3. QED
    BY <2>1, <2>2
<1> QED
  BY <1>1, <1>2 DEF attach_and_notify

(* And so does a question to the user.                                      *)
LEMMA WaitKeepsTasks ==
    ASSUME TaskInv, NEW t \in tasks, NEW i \in t.items,
           Waits(t, i, "choose") \/ Waits(t, i, "confirm")
    PROVE  TaskInv'
<1>1. TaskOK([t EXCEPT !.stage = "choose", !.now = i, !.known = Known(i)])
      /\ TaskOK([t EXCEPT !.stage = "confirm", !.now = i, !.known = Known(i)])
  BY SMT DEF TaskInv, TaskOK
<1> QED
  BY <1>1 DEF Waits, TaskInv

(* Every step keeps the tasks in order.                                      *)
LEMMA TaskStep == TaskInv /\ [Next]_vars => TaskInv'
<1> SUFFICES ASSUME TaskInv, [Next]_vars PROVE TaskInv'
  OBVIOUS
<1>1. CASE OnQdbChange
  <2>1. ToAttach # {} => TaskOK(Task(FreshId, ToAttach))
    BY AddedItems, NewTask
  <2>2. QED
    BY <1>1, <2>1 DEF OnQdbChange, TaskInv
<1>2. ASSUME NEW t \in tasks, RunTask(t) PROVE TaskInv'
  <2>1. PICK i \in t.items :
          \/ Waits(t, i, "choose")
          \/ \E f : Waits(t, i, "confirm") \/ attach_and_notify(t, i, f, Known(i))
    BY <1>2 DEF RunTask
  <2>2. QED
    BY <2>1, WaitKeepsTasks, AttemptKeepsTasks
<1>3. ASSUME NEW t \in tasks, Chosen(t) \/ Confirmed(t) PROVE TaskInv'
  <2>1. t.now \in t.items
    BY <1>3 DEF Chosen, Confirmed, TaskInv, TaskOK
  <2>2. QED
    BY <1>3, <2>1, AttemptKeepsTasks DEF Chosen, Confirmed
<1>4. ASSUME NEW t \in tasks, Denied(t) PROVE TaskInv'
  <2>1. CASE Drop(t, t.now)
    BY <2>1 DEF Drop, TaskInv
  <2>2. CASE t.stage = "confirm" /\ NextItem(t, t.now)
    <3>1. CASE t.items = {t.now}
      BY <2>2, <3>1 DEF NextItem, TaskInv
    <3>2. CASE t.items # {t.now}
      <4>1. t.items \ {t.now} # {} /\ t.items \ {t.now} \in SUBSET t.items
        BY <3>2 DEF TaskInv, TaskOK
      <4>2. TaskOK([t EXCEPT !.items = t.items \ {t.now}, !.stage = "ready", !.now = None,
                             !.known = FALSE])
        BY <4>1, SMT DEF TaskInv, TaskOK
      <4>3. QED
        BY <2>2, <3>2, <4>2 DEF NextItem, TaskInv
    <3>3. QED
      BY <3>1, <3>2
  <2>3. QED
    BY <1>4, <2>1, <2>2 DEF Denied
<1>5. ASSUME NEW f \in Fronts, on_domain_start(f) PROVE TaskInv'
  <2>1. \A p \in Wanted(f) : TaskOK(Task(f, {Item(p, {f}, {"auto", "ask"})}))
    <3> SUFFICES ASSUME NEW p \in Wanted(f)
                 PROVE  TaskOK(Task(f, {Item(p, {f}, {"auto", "ask"})}))
      OBVIOUS
    <3>1. ItemOK(Item(p, {f}, {"auto", "ask"}))
      BY ItemIsOK DEF Wanted
    <3>2. QED
      BY <3>1, NewTask
  <2>2. QED
    BY <1>5, <2>1 DEF on_domain_start, TaskInv
<1>6. CASE Restart
  BY <1>6 DEF Restart, TaskInv
<1>7. CASE UNCHANGED tasks
  BY <1>7 DEF TaskInv
<1>8. QED
  <2>1. CASE \/ OnQdbChangeFails \/ StopBackend \/ on_domain_shutdown \/ StartBackend
             \/ UNCHANGED vars
    BY <1>7, <2>1 DEF OnQdbChangeFails, StopBackend, on_domain_shutdown, StartBackend, vars
  <2>2. ASSUME NEW f \in Fronts, NEW p \in Ports, Attach(f, p) \/ Detach(f, p)
        PROVE  TaskInv'
    BY <1>7, <2>2 DEF Attach, AttachFrame, Detach
  <2>3. ASSUME NEW f \in Fronts, NEW k \in Keys,
               \/ unassign(f, k)
               \/ \E m \in Modes : assign(f, k, m) \/ update_assignment(f, k, m)
        PROVE  TaskInv'
    BY <1>7, <2>3 DEF unassign, assign, update_assignment, SetMode
  <2>4. ASSUME NEW f \in Fronts,
               \/ StartCheck(f) \/ StartFails(f) \/ Create(f) \/ Stop(f)
               \/ detach_attached_devices_on_shutdown(f)
        PROVE  TaskInv'
    BY <1>7, <2>4 DEF StartCheck, StartFails, Create, Stop, detach_attached_devices_on_shutdown
  <2>5. ASSUME NEW p \in Ports, Unplug(p) \/ \E d \in Devs : Plug(p, d)
        PROVE  TaskInv'
    BY <1>7, <2>5 DEF Unplug, Plug
  <2>6. QED
    BY <1>1, <1>2, <1>3, <1>4, <1>5, <1>6, <2>1, <2>2, <2>3, <2>4, <2>5 DEF Next

(* Disks that are taken away.                                                *)
LEMMA WithoutEffect ==
    ASSUME TypeOK, NEW S
    PROVE  /\ Without(S) \in [Fronts -> [Ports -> Devs \cup {None}]]
           /\ \A f \in Fronts, p \in Ports :
                 Without(S)[f][p] = IF <<f, p>> \in S THEN None ELSE held[f][p]
  BY SMT DEF Without, TypeOK

(* What the cache should hold is a frontend, or says that there is none.     *)
LEMMA CurrentType == \A p \in Ports : Current(p) \in Fronts \cup {Free, Absent}
<1> SUFFICES ASSUME NEW p \in Ports PROVE Current(p) \in Fronts \cup {Free, Absent}
  OBVIOUS
<1>1. CASE Exposes(p) /\ Holders(p) # {}
  <2>1. Current(p) \in Holders(p)
    BY <1>1 DEF Current
  <2>2. QED
    BY <2>1 DEF Holders
<1>2. CASE ~Exposes(p) \/ Holders(p) = {}
  BY <1>2 DEF Current
<1> QED
  BY <1>1, <1>2

(* What remains where disks Z are taken away, and those of ports B were left *)
(* by an earlier step; and where none of them is.                            *)
TakenAway(Z, B) == \A f \in Fronts, p \in Ports : held'[f][p] # None =>
    held'[f][p] = held[f][p] /\ (p \in blink \cup B \/ <<f, p>> \in Z => p \in blink')

Untouched(Z) == \A p \in Ports : (\A f \in Fronts : <<f, p>> \notin Z) =>
    cache'[p] = cache[p] /\ \A f \in Fronts : held'[f][p] = held[f][p]

(* A loop that detaches all of them.                                        *)
LEMMA AllTakenAway ==
    ASSUME TypeOK, NEW Z, NEW B, NEW S, S = blink \cup B, held' = Without(Z), blink' = Left(S)
    PROVE  TakenAway(Z, B)
<1>1. \A f \in Fronts, p \in Ports : held'[f][p] = IF <<f, p>> \in Z THEN None ELSE held[f][p]
  BY SMT DEF Without, TypeOK
<1>2. \A p \in blink \cup B : p \in blink' <=> \E f \in Fronts : held'[f][p] # None
  BY SMT DEF Left
<1> QED
  BY <1>1, <1>2 DEF TakenAway

(* A loop that detaches the disks of Z and ends before its end.              *)
LEMMA DetachFailsEffect ==
    ASSUME TypeOK, NEW Z \in SUBSET (Fronts \X Ports), NEW B \in SUBSET Ports, DetachFails(Z, B)
    PROVE  /\ held' \in [Fronts -> [Ports -> Devs \cup {None}]]
           /\ cache' \in [Ports -> Fronts \cup {Free, Absent}]
           /\ blink' \subseteq blink \cup B \cup Ports
           /\ happened < MaxEvents /\ happened' = happened + 1
           /\ TakenAway(Z, B) /\ Untouched(Z)
<1> PICK done \in SUBSET Z : \E z \in Z \ done :
        /\ Happens
        /\ held' = Without(done)
        /\ cache' = [p \in Ports |-> IF \E f \in Fronts : <<f, p>> \in done \cup {z}
                                     THEN Free ELSE cache[p]]
        /\ blink' = Left(blink \cup B \cup {x[2] : x \in Z \ done})
  BY Zenon DEF DetachFails
<1> PICK z \in Z \ done :
        /\ Happens
        /\ held' = Without(done)
        /\ cache' = [p \in Ports |-> IF \E f \in Fronts : <<f, p>> \in done \cup {z}
                                     THEN Free ELSE cache[p]]
        /\ blink' = Left(blink \cup B \cup {x[2] : x \in Z \ done})
  OBVIOUS
<1>1. /\ held' \in [Fronts -> [Ports -> Devs \cup {None}]]
      /\ \A f \in Fronts, p \in Ports : held'[f][p] = IF <<f, p>> \in done THEN None ELSE held[f][p]
  BY WithoutEffect
<1>2. \A p \in blink \cup B \cup {x[2] : x \in Z \ done} :
          p \in blink' <=> \E f \in Fronts : held'[f][p] # None
  BY SMT DEF Left
<1>3. blink' \subseteq blink \cup B \cup Ports
  <2>1. {x[2] : x \in Z \ done} \subseteq Ports
    OBVIOUS
  <2>2. QED
    BY <2>1, SMT DEF Left
<1>4. \A f \in Fronts, p \in Ports : <<f, p>> \in Z \ done => p \in {x[2] : x \in Z \ done}
  <2> SUFFICES ASSUME NEW f \in Fronts, NEW p \in Ports, <<f, p>> \in Z \ done
               PROVE  p \in {x[2] : x \in Z \ done}
    OBVIOUS
  <2>1. <<f, p>>[2] = p
    OBVIOUS
  <2>2. QED
    BY <2>1
<1>5. cache' \in [Ports -> Fronts \cup {Free, Absent}]
  BY SMT DEF TypeOK
<1>6. \A f \in Fronts, p \in Ports : held'[f][p] # None =>
          held'[f][p] = held[f][p] /\ (p \in blink \cup B \/ <<f, p>> \in Z => p \in blink')
  BY <1>1, <1>2, <1>4
<1>7. \A p \in Ports : (\A f \in Fronts : <<f, p>> \notin Z) =>
          cache'[p] = cache[p] /\ \A f \in Fronts : held'[f][p] = held[f][p]
  <2> SUFFICES ASSUME NEW p \in Ports, \A f \in Fronts : <<f, p>> \notin Z
               PROVE  cache'[p] = cache[p] /\ \A f \in Fronts : held'[f][p] = held[f][p]
    OBVIOUS
  <2>1. \A f \in Fronts : <<f, p>> \notin done \cup {z} /\ <<f, p>> \notin done
    OBVIOUS
  <2>2. cache'[p] = cache[p]
    BY <2>1
  <2>3. \A f \in Fronts : held'[f][p] = held[f][p]
    BY <1>1, <2>1
  <2>4. QED
    BY <2>2, <2>3
<1> QED
  BY <1>1, <1>3, <1>5, <1>6, <1>7 DEF Happens, TakenAway, Untouched

(* The disks the loops are about.                                            *)
Gone(Z, S) == \A f \in Fronts, p \in Ports :
    <<f, p>> \in Z <=> p \in S /\ cache[p] = f /\ Running(f) /\ held[f][p] # None

(* The zombies are the disks the cache says these ports have.               *)
LEMMA ZombiesAreDisks == ASSUME NEW S \in SUBSET Ports PROVE Gone(Zombies(S), S)
  BY SMT DEF Zombies, Gone

(* They are pairs of a frontend and a port.                                 *)
LEMMA ZombiesType == ASSUME NEW S \in SUBSET Ports PROVE Zombies(S) \in SUBSET (Fronts \X Ports)
  BY SMT DEF Zombies

(* An attempt to attach the device in port p to f writes the cache and makes *)
(* a disk, or leaves p to be suspected.                                      *)
Tried(f, p) ==
    \/ UNCHANGED <<cache, held, suspect>>
    \/ /\ Running(f) /\ Holders(p) = {} /\ back = "on"
       /\ cache' = [cache EXCEPT ![p] = f]
       /\ \/ suspect' = suspect \cup {p} /\ UNCHANGED held
          \/ /\ exposed[p] # None /\ UNCHANGED suspect
             /\ held' = [held EXCEPT ![f][p] = exposed[p]]

(* So does an attempt of a task, ...                                        *)
LEMMA AttemptTries ==
    ASSUME NEW t, NEW i, NEW f, NEW known, attach_and_notify(t, i, f, known)
    PROVE  Tried(f, i.port) /\ UNCHANGED <<vms, exposed, mode, changed, blink>>
  BY DEF attach_and_notify, Refused, AttachFails, Attached, Tried

(* ... and one of the admin.                                                *)
LEMMA AttachTries ==
    ASSUME NEW f, NEW p, Attach(f, p)
    PROVE  Tried(f, p) /\ UNCHANGED <<vms, exposed, mode, changed, blink>>
  BY DEF Attach, AttachFrame, Refused, AttachFails, Attached, Tried

(* It keeps types.                                                          *)
LEMMA TriedTypes ==
    ASSUME TypeOK, NEW f \in Fronts, NEW p \in Ports, Tried(f, p)
    PROVE  /\ cache' \in [Ports -> Fronts \cup {Free, Absent}] /\ suspect' \subseteq Ports
           /\ held' \in [Fronts -> [Ports -> Devs \cup {None}]]
<1>1. cache' \in [Ports -> Fronts \cup {Free, Absent}] /\ suspect' \subseteq Ports
  BY SMT DEF Tried, TypeOK
<1>2. CASE UNCHANGED held
  BY <1>1, <1>2 DEF TypeOK
<1>3. CASE held' = [held EXCEPT ![f][p] = exposed[p]]
  <2>1. held[f] \in [Ports -> Devs \cup {None}] /\ exposed[p] \in Devs \cup {None}
    BY DEF TypeOK
  <2>2. [held[f] EXCEPT ![p] = exposed[p]] \in [Ports -> Devs \cup {None}]
    BY <2>1
  <2>3. held' = [held EXCEPT ![f] = [held[f] EXCEPT ![p] = exposed[p]]]
    BY <1>3
  <2>4. QED
    BY <1>1, <2>2, <2>3 DEF TypeOK
<1> QED
  BY <1>2, <1>3 DEF Tried

(* An attempt of a task keeps types.                                       *)
LEMMA AttemptKeepsTypes ==
    ASSUME TypeOK, TaskInv, NEW t \in tasks, NEW i \in t.items, NEW f \in DOMAIN i.wants,
           NEW known, attach_and_notify(t, i, f, known)
    PROVE  TypeOK'
<1> USE DevicesAssumption DEF DevicesAssumption
<1>1. Tried(f, i.port) /\ UNCHANGED <<vms, exposed, mode, changed, blink>>
  BY AttemptTries
<1>2. f \in Fronts /\ i.port \in Ports /\ \A j \in t.items : j.port \in Ports
  BY DEF TaskInv, TaskOK, ItemOK
<1>3. skipped' \subseteq Ports
  BY <1>2, SMT DEF attach_and_notify, AttachFails, Drop, NextItem, TypeOK
<1>4. excused' \subseteq Ports /\ happened' \in 0..MaxEvents
  BY <1>2, SMT DEF attach_and_notify, AttachFails, Drop, NextItem, TypeOK, Happens, Quiet
<1>5. QED
  BY <1>1, <1>2, <1>3, <1>4, TriedTypes DEF TypeOK, vms

(* Every variable keeps its type.                                            *)
LEMMA TypeStep == TypeOK /\ TaskInv /\ [Next]_vars => TypeOK'
<1> SUFFICES ASSUME TypeOK, TaskInv, [Next]_vars
             PROVE  TypeOK'
  OBVIOUS
<1> USE DevicesAssumption DEF DevicesAssumption
<1>1. CASE OnQdbChange
  <2>1. held' \in [Fronts -> [Ports -> Devs \cup {None}]]
    BY <1>1, WithoutEffect DEF OnQdbChange
  <2>2. cache' \in [Ports -> Fronts \cup {Free, Absent}]
    BY <1>1, CurrentType DEF OnQdbChange
  <2>3. blink' \subseteq Ports /\ excused' \subseteq Ports /\ skipped' \subseteq Ports
    BY <1>1, SMT DEF OnQdbChange, Left, TypeOK
  <2>4. suspect' \subseteq Ports /\ changed' \in BOOLEAN
    BY <1>1, Zenon DEF OnQdbChange
  <2>5. QED
    BY <1>1, <2>1, <2>2, <2>3, <2>4 DEF OnQdbChange, TypeOK, vms, Quiet
<1>2. CASE OnQdbChangeFails
  <2> DEFINE Z == Zombies(Detached)
  <2> DEFINE B == {p \in suspect : ~Exposes(p)}
  <2>1. Detached \in SUBSET Ports /\ B \in SUBSET Ports
    BY DEF Detached, TypeOK
  <2>2. Z \in SUBSET (Fronts \X Ports)
    BY <2>1, ZombiesType
  <2>3. DetachFails(Z, B)
    BY <1>2 DEF OnQdbChangeFails
  <2> HIDE DEF Z, B
  <2>4. /\ held' \in [Fronts -> [Ports -> Devs \cup {None}]]
        /\ cache' \in [Ports -> Fronts \cup {Free, Absent}]
        /\ blink' \subseteq blink \cup B \cup Ports
        /\ happened < MaxEvents /\ happened' = happened + 1
    BY <2>1, <2>2, <2>3, DetachFailsEffect
  <2>5. suspect' \subseteq Ports
    BY <1>2 DEF OnQdbChangeFails, TypeOK
  <2>6. changed' \in BOOLEAN /\ happened' \in 0..MaxEvents /\ blink' \subseteq Ports
    <3>1. changed' \in BOOLEAN
      BY <1>2, Zenon DEF OnQdbChangeFails
    <3>2. QED
      BY <2>1, <2>4, <3>1, SMT DEF TypeOK
  <2>7. QED
    BY <1>2, <2>4, <2>5, <2>6 DEF OnQdbChangeFails, TypeOK, vms
<1>3. ASSUME NEW t \in tasks, RunTask(t)
     PROVE  TypeOK'
  <2>1. ASSUME NEW i \in t.items, Waits(t, i, "choose") \/ Waits(t, i, "confirm")
        PROVE  TypeOK'
    BY <2>1 DEF Waits, TypeOK, vms, history, Quiet
  <2>2. QED
    BY <1>3, <2>1, AttemptKeepsTypes DEF RunTask
<1>4. ASSUME NEW t \in tasks, Chosen(t)
     PROVE  TypeOK'
  <2>1. t.now \in t.items
    BY <1>4 DEF Chosen, TaskInv, TaskOK
  <2>2. QED
    BY <1>4, <2>1, AttemptKeepsTypes DEF Chosen
<1>5. ASSUME NEW t \in tasks, Confirmed(t)
     PROVE  TypeOK'
  <2>1. t.now \in t.items
    BY <1>5 DEF Confirmed, TaskInv, TaskOK
  <2>2. QED
    BY <1>5, <2>1, AttemptKeepsTypes DEF Confirmed
<1>6. ASSUME NEW t \in tasks, Denied(t)
     PROVE  TypeOK'
  <2>1. t.now \in t.items /\ \A i \in t.items : i.port \in Ports
    BY <1>6 DEF Denied, TaskInv, TaskOK, ItemOK
  <2>2. skipped' \subseteq Ports
    BY <1>6, <2>1, SMT DEF Denied, Drop, TypeOK
  <2>3. QED
    BY <1>6, <2>1, <2>2, SMT DEF Denied, TypeOK, vms, history, Quiet
<1>7. ASSUME NEW f \in Fronts, NEW p \in Ports, Attach(f, p)
     PROVE  TypeOK'
  <2>1. Tried(f, p) /\ UNCHANGED <<vms, exposed, mode, changed, blink>>
    BY <1>7, AttachTries
  <2>2. QED
    <3>1. excused' \subseteq Ports /\ happened' \in 0..MaxEvents /\ UNCHANGED skipped
      BY <1>7, SMT DEF Attach, AttachFrame, AttachFails, TypeOK, Happens, Quiet
    <3>2. QED
      BY <2>1, <3>1, TriedTypes DEF TypeOK, vms
<1>8. ASSUME NEW f \in Fronts, NEW p \in Ports, Detach(f, p)
     PROVE  TypeOK'
  <2>1. CASE DetachFails({<<f, p>>}, {}) /\ suspect' = suspect \cup {p}
    <3>1. {<<f, p>>} \in SUBSET (Fronts \X Ports) /\ {} \in SUBSET Ports
      OBVIOUS
    <3>2. /\ held' \in [Fronts -> [Ports -> Devs \cup {None}]]
          /\ cache' \in [Ports -> Fronts \cup {Free, Absent}]
          /\ blink' \subseteq blink \cup {} \cup Ports
          /\ happened < MaxEvents /\ happened' = happened + 1
      BY <2>1, <3>1, DetachFailsEffect
    <3>3. QED
      BY <1>8, <2>1, <3>2, SMT DEF Detach, TypeOK, vms
  <2>2. CASE /\ cache' = [cache EXCEPT ![p] = Free]
             /\ held' = Without({<<f, p>>})
             /\ blink' = Left(blink)
             /\ suspect' = IF Exposes(p) \/ changed THEN suspect ELSE suspect \cup {p}
             /\ Happens
    <3>1. held' \in [Fronts -> [Ports -> Devs \cup {None}]]
      BY <2>2, WithoutEffect
    <3>2. suspect' \subseteq Ports /\ blink' \subseteq Ports
      BY <2>2 DEF TypeOK, Left
    <3>3. cache' \in [Ports -> Fronts \cup {Free, Absent}] /\ happened' \in 0..MaxEvents
      BY <2>2, SMT DEF TypeOK, Happens
    <3>4. excused' \subseteq Ports /\ UNCHANGED <<vms, exposed, mode, changed, skipped>>
      BY <1>8 DEF Detach, TypeOK
    <3>5. QED
      BY <3>1, <3>2, <3>3, <3>4 DEF TypeOK, vms
  <2>3. QED
    BY <1>8, <2>1, <2>2 DEF Detach
<1>9. ASSUME NEW f \in Fronts, NEW k \in Keys, unassign(f, k)
     PROVE  TypeOK'
  BY <1>9, SMT
    DEF unassign, SetMode, TypeOK, Happens, Quiet, vms, history
<1>10. ASSUME NEW f \in Fronts, NEW k \in Keys, NEW m \in Modes, assign(f, k, m)
     PROVE  TypeOK'
  BY <1>10, SMT
    DEF assign, SetMode, TypeOK, Happens, Quiet, vms, history
<1>11. ASSUME NEW f \in Fronts, NEW k \in Keys, NEW m \in Modes, update_assignment(f, k, m)
     PROVE  TypeOK'
  BY <1>11, SMT
    DEF update_assignment, SetMode, TypeOK, Happens, Quiet, vms, history
<1>12. ASSUME NEW f \in Fronts, StartCheck(f)
     PROVE  TypeOK'
  BY <1>12, SMT
    DEF StartCheck, TypeOK, Happens, Quiet, vms, history
<1>13. ASSUME NEW f \in Fronts, StartFails(f)
     PROVE  TypeOK'
  BY <1>13, SMT
    DEF StartFails, TypeOK, Happens, Quiet, vms, history
<1>14. ASSUME NEW f \in Fronts, Create(f)
     PROVE  TypeOK'
  BY <1>14, SMT
    DEF Create, Needed, TypeOK, Happens, Quiet, vms, history
<1>15. ASSUME NEW f \in Fronts, on_domain_start(f)
     PROVE  TypeOK'
  BY <1>15, SMT
    DEF on_domain_start, TypeOK, Happens, Quiet, vms, history
<1>16. ASSUME NEW f \in Fronts, Stop(f)
     PROVE  TypeOK'
  <2>1. /\ held' \in [Fronts -> [Ports -> Devs \cup {None}]]
        /\ front' \in [Fronts -> {"off", "checked", "created", "on", "ended"}]
    BY <1>16, SMT DEF Stop, TypeOK
  <2>2. blink' \subseteq Ports /\ excused' \subseteq Ports /\ happened' \in 0..MaxEvents
    BY <1>16, SMT DEF Stop, Left, TypeOK, Happens
  <2>3. QED
    BY <1>16, <2>1, <2>2 DEF Stop, TypeOK
<1>17. ASSUME NEW f \in Fronts, detach_attached_devices_on_shutdown(f)
     PROVE  TypeOK'
  BY <1>17, SMT
    DEF detach_attached_devices_on_shutdown, Released, TypeOK, Happens, Quiet, vms,
        history
<1>18. ASSUME NEW p \in Ports, Unplug(p)
     PROVE  TypeOK'
  BY <1>18, SMT
    DEF Unplug, TypeOK, Happens, Quiet, vms, history
<1>19. ASSUME NEW p \in Ports, NEW d \in Devs, Plug(p, d)
     PROVE  TypeOK'
  BY <1>19, SMT
    DEF Plug, TypeOK, Happens, Quiet, vms, history
<1>20. CASE StopBackend
  <2>1. changed' \in BOOLEAN
    BY <1>20, Zenon DEF StopBackend, TypeOK
  <2>2. exposed' \in [Ports -> Devs \cup {None}] /\ happened' \in 0..MaxEvents /\ back' = "ended"
    BY <1>20, SMT DEF StopBackend, TypeOK, Happens
  <2>3. QED
    BY <1>20, <2>1, <2>2 DEF StopBackend, TypeOK, history
<1>21. CASE on_domain_shutdown
  <2>1. CASE /\ held' = Without(Zombies(Ports))
             /\ cache' = [p \in Ports |-> Absent]
             /\ suspect' = {}
             /\ blink' = Left(blink \cup suspect)
             /\ Quiet
    <3>1. held' \in [Fronts -> [Ports -> Devs \cup {None}]]
      BY <2>1, WithoutEffect
    <3>2. QED
      BY <1>21, <2>1, <3>1, SMT DEF on_domain_shutdown, Left, TypeOK, Quiet
  <2>2. CASE /\ DetachFails(Zombies(Ports), suspect)
             /\ suspect' = {p \in Ports : cache'[p] # Absent}
    <3>1. Zombies(Ports) \in SUBSET (Fronts \X Ports) /\ suspect \in SUBSET Ports
      BY ZombiesType DEF TypeOK
    <3>2. /\ held' \in [Fronts -> [Ports -> Devs \cup {None}]]
          /\ cache' \in [Ports -> Fronts \cup {Free, Absent}]
          /\ blink' \subseteq blink \cup suspect \cup Ports
          /\ happened < MaxEvents /\ happened' = happened + 1
      BY <2>2, <3>1, DetachFailsEffect
    <3>3. QED
      BY <1>21, <2>2, <3>2, SMT DEF on_domain_shutdown, TypeOK
  <2>3. QED
    BY <1>21, <2>1, <2>2 DEF on_domain_shutdown
<1>22. CASE StartBackend
  BY <1>22, SMT
    DEF StartBackend, TypeOK, Happens, Quiet, vms, history
<1>23. CASE Restart
  <2>1. cache' \in [Ports -> Fronts \cup {Free, Absent}]
    BY <1>23, CurrentType DEF Restart, Cached
  <2>2. front' \in [Fronts -> {"off", "checked", "created", "on", "ended"}]
    BY <1>23, SMT DEF Restart, TypeOK
  <2>3. changed' \in BOOLEAN /\ suspect' \subseteq Ports /\ skipped' \subseteq Ports
    BY <1>23, Zenon DEF Restart
  <2>4. blink' \subseteq Ports /\ excused' \subseteq Ports /\ happened' \in 0..MaxEvents
    BY <1>23, SMT DEF Restart, TypeOK, Happens
  <2>5. back' \in {"off", "on", "ended"} /\ UNCHANGED <<exposed, held, mode>>
    BY <1>23 DEF Restart, TypeOK
  <2>6. QED
    BY <2>1, <2>2, <2>3, <2>4, <2>5 DEF TypeOK
<1>24. CASE UNCHANGED vars
  BY <1>24, SMT
    DEF vars, TypeOK, Happens, Quiet, vms, history
<1>25. QED
  BY <1>1, <1>2, <1>3, <1>4, <1>5, <1>6, <1>7, <1>8, <1>9, <1>10, <1>11, <1>12, <1>13,
     <1>14, <1>15, <1>16, <1>17, <1>18, <1>19, <1>20, <1>21, <1>22, <1>23, <1>24
    DEF Next

(* The cached value of a device is right.                                    *)
CurrentIsRight(p) ==
    /\ ~Exposes(p) => Current(p) = Absent
    /\ Exposes(p) /\ Holders(p) = {} => Current(p) = Free
    /\ \A f \in Holders(p) : Exposes(p) => Current(p) = f

(* Only one frontend has the disk of a port, so it is that one.              *)
LEMMA CurrentIs == DiskInv => \A p \in Ports : CurrentIsRight(p)
<1> SUFFICES ASSUME DiskInv, NEW p \in Ports PROVE CurrentIsRight(p)
  OBVIOUS
<1>1. ASSUME NEW f \in Holders(p), Exposes(p) PROVE Current(p) = f
  <2>1. \A g \in Holders(p) : g = f
    BY <1>1 DEF DiskInv, Holders
  <2>2. Current(p) \in Holders(p)
    BY <1>1 DEF Current
  <2>3. QED
    BY <2>1, <2>2
<1>2. ~Exposes(p) => Current(p) = Absent
  BY DEF Current
<1>3. Exposes(p) /\ Holders(p) = {} => Current(p) = Free
  BY DEF Current
<1> QED
  BY <1>1, <1>2, <1>3 DEF CurrentIsRight

(* A step that leaves the disks and what they depend on alone.               *)
LEMMA DisksAlone ==
    ASSUME DiskInv, UNCHANGED <<vms, exposed, held, cache, changed, suspect, blink>>
    PROVE  DiskInv'
  BY DEF DiskInv, Running, Handled, vms

(* An attempt to attach makes a disk of what is in the port, or none.       *)
LEMMA TriedDisks ==
    ASSUME TypeOK, DiskInv, NEW f \in Fronts, NEW p \in Ports, Tried(f, p),
           UNCHANGED <<vms, exposed, mode, changed, blink>>
    PROVE  DiskInv'
<1>1. CASE UNCHANGED <<cache, held, suspect>>
  BY <1>1, DisksAlone
<1>2. CASE /\ Running(f) /\ Holders(p) = {} /\ back = "on"
           /\ cache' = [cache EXCEPT ![p] = f]
  <2>1. \A g \in Fronts : held[g][p] = None
    BY <1>2 DEF DiskInv, Holders
  <2>2. cache'[p] = f /\ \A q \in Ports \ {p} : cache'[q] = cache[q]
    BY <1>2 DEF TypeOK
  <2>3. CASE suspect' = suspect \cup {p} /\ UNCHANGED held
    BY <2>1, <2>2, <2>3 DEF DiskInv, Running, Handled, vms
  <2>4. CASE /\ exposed[p] # None /\ UNCHANGED suspect
             /\ held' = [held EXCEPT ![f][p] = exposed[p]]
    <3>1. /\ held'[f][p] = exposed[p]
          /\ \A g \in Fronts, q \in Ports : g # f \/ q # p => held'[g][q] = held[g][q]
      BY <2>4 DEF TypeOK
    <3>2. QED
      BY <1>2, <2>1, <2>2, <2>4, <3>1 DEF DiskInv, Running, Handled, vms
  <2>5. QED
    BY <1>1, <1>2, <2>3, <2>4 DEF Tried
<1> QED
  BY <1>1, <1>2 DEF Tried

(* Every step keeps disks where they are.                                    *)
LEMMA DiskStep == TypeOK /\ TaskInv /\ DiskInv /\ [Next]_vars => DiskInv'
<1> SUFFICES ASSUME TypeOK, TaskInv, DiskInv, [Next]_vars
             PROVE  DiskInv'
  OBVIOUS
<1> USE DevicesAssumption DEF DevicesAssumption
<1>1. CASE OnQdbChange
  <2> DEFINE Z == Zombies(Detached)
  <2>1. Detached \in SUBSET Ports
    BY DEF Detached
  <2>2. /\ held' = Without(Z) /\ blink' = Left(blink \cup {p \in suspect : ~Exposes(p)})
        /\ cache' = [p \in Ports |-> Current(p)]
        /\ suspect' = {} /\ UNCHANGED <<vms, exposed>>
    BY <1>1 DEF OnQdbChange
  <2> DEFINE B == {p \in suspect : ~Exposes(p)}
  <2>3. TakenAway(Z, B) /\ Gone(Z, Detached)
    BY <2>1, <2>2, AllTakenAway, ZombiesAreDisks
  <2> HIDE DEF Z
  <2>4. ASSUME NEW f \in Fronts, NEW p \in Ports, held'[f][p] # None, p \notin blink'
        PROVE  held'[f][p] = exposed[p] /\ cache'[p] = f
    <3>1. /\ held'[f][p] = held[f][p] /\ <<f, p>> \notin Z /\ p \notin blink \cup B
      BY <2>3, <2>4 DEF TakenAway
    <3>2. /\ Running(f) /\ (cache[p] = f \/ p \in suspect)
          /\ held[f][p] # exposed[p] => exposed[p] = None
      BY <2>4, <3>1 DEF DiskInv
    <3>3. Exposes(p)
      <4> SUFFICES ASSUME ~Exposes(p) PROVE FALSE
        OBVIOUS
      <4>1. cache[p] = f /\ Current(p) = Absent
        BY <3>1, <3>2 DEF Current
      <4>2. p \in Detached
        BY <4>1 DEF Detached
      <4>3. QED
        BY <2>3, <2>4, <3>1, <3>2, <4>1, <4>2 DEF Gone
    <3>4. f \in Holders(p)
      BY <2>4, <3>1, <3>2 DEF Holders
    <3>5. Current(p) = f
      BY <3>3, <3>4, CurrentIs DEF CurrentIsRight
    <3>6. QED
      BY <2>2, <3>1, <3>2, <3>3, <3>5 DEF Exposes
  <2>5. ASSUME NEW f \in Fronts, NEW p \in Ports, held'[f][p] # None
        PROVE  Running(f)' /\ \A g \in Fronts : held'[g][p] # None => g = f
    <3>1. held[f][p] # None /\ \A g \in Fronts : held'[g][p] # None => held[g][p] # None
      BY <2>3, <2>5 DEF TakenAway
    <3>2. QED
      BY <2>2, <3>1 DEF DiskInv, Running, vms
  <2>6. QED
    BY <2>2, <2>4, <2>5 DEF DiskInv, vms
<1>2. CASE OnQdbChangeFails
  <2> DEFINE Z == Zombies(Detached)
  <2> DEFINE B == {p \in suspect : ~Exposes(p)}
  <2>1. Detached \in SUBSET Ports /\ B \in SUBSET Ports /\ Z \in SUBSET (Fronts \X Ports)
    BY ZombiesType DEF Detached, TypeOK
  <2>2. DetachFails(Z, B) /\ UNCHANGED <<vms, exposed>> /\ suspect \subseteq suspect'
    BY <1>2 DEF OnQdbChangeFails
  <2>3. TakenAway(Z, B) /\ Untouched(Z) /\ Gone(Z, Detached)
    BY <2>1, <2>2, DetachFailsEffect, ZombiesAreDisks
  <2> HIDE DEF Z
  <2>4. ASSUME NEW f \in Fronts, NEW p \in Ports, held'[f][p] # None, p \notin blink'
        PROVE  held'[f][p] = exposed[p] /\ (cache'[p] = f \/ p \in suspect')
    <3>1. /\ held'[f][p] = held[f][p] /\ <<f, p>> \notin Z /\ p \notin blink \cup B
      BY <2>3, <2>4 DEF TakenAway
    <3>2. /\ Running(f) /\ (cache[p] = f \/ p \in suspect)
          /\ held[f][p] # exposed[p] => exposed[p] = None
          /\ \A g \in Fronts : held[g][p] # None => g = f
      BY <2>4, <3>1 DEF DiskInv
    <3>3. Exposes(p)
      <4> SUFFICES ASSUME ~Exposes(p) PROVE FALSE
        OBVIOUS
      <4>1. cache[p] = f /\ Current(p) = Absent
        BY <3>1, <3>2 DEF Current
      <4>2. p \in Detached
        BY <4>1 DEF Detached
      <4>3. QED
        BY <2>3, <2>4, <3>1, <3>2, <4>1, <4>2 DEF Gone
    <3>4. \A g \in Fronts : <<g, p>> \notin Z
      BY <2>3, <3>1, <3>2 DEF Gone
    <3>5. cache'[p] = cache[p]
      BY <2>3, <3>4 DEF Untouched
    <3>6. QED
      BY <2>2, <3>1, <3>2, <3>3, <3>5 DEF Exposes
  <2>5. ASSUME NEW f \in Fronts, NEW p \in Ports, held'[f][p] # None
        PROVE  Running(f)' /\ \A g \in Fronts : held'[g][p] # None => g = f
    <3>1. held[f][p] # None /\ \A g \in Fronts : held'[g][p] # None => held[g][p] # None
      BY <2>3, <2>5 DEF TakenAway
    <3>2. QED
      BY <2>2, <3>1 DEF DiskInv, Running, vms
  <2>6. QED
    BY <2>2, <2>4, <2>5 DEF DiskInv, vms
<1>3. ASSUME NEW t \in tasks, RunTask(t)
     PROVE  DiskInv'
  <2>1. ASSUME NEW i \in t.items, Waits(t, i, "choose") \/ Waits(t, i, "confirm")
        PROVE  DiskInv'
    BY <2>1, DisksAlone DEF Waits, history
  <2>2. ASSUME NEW i \in t.items, NEW f \in DOMAIN i.wants, NEW known,
               attach_and_notify(t, i, f, known)
        PROVE  DiskInv'
    BY <2>2, AttemptTries, TriedDisks DEF TaskInv, TaskOK, ItemOK
  <2>3. QED
    BY <1>3, <2>1, <2>2 DEF RunTask
<1>4. ASSUME NEW t \in tasks, Chosen(t)
     PROVE  DiskInv'
  <2>1. t.now.port \in Ports /\ DOMAIN t.now.wants \subseteq Fronts
    BY <1>4 DEF Chosen, TaskInv, TaskOK, ItemOK
  <2>2. QED
    BY <1>4, <2>1, AttemptTries, TriedDisks DEF Chosen
<1>5. ASSUME NEW t \in tasks, Confirmed(t)
     PROVE  DiskInv'
  <2>1. t.now.port \in Ports /\ DOMAIN t.now.wants \subseteq Fronts
    BY <1>5 DEF Confirmed, TaskInv, TaskOK, ItemOK
  <2>2. QED
    BY <1>5, <2>1, AttemptTries, TriedDisks DEF Confirmed
<1>6. ASSUME NEW t \in tasks, Denied(t)
     PROVE  DiskInv'
  BY <1>6, DisksAlone DEF Denied
<1>7. ASSUME NEW f \in Fronts, NEW p \in Ports, Attach(f, p)
     PROVE  DiskInv'
  <2>1. Tried(f, p) /\ UNCHANGED <<vms, exposed, mode, changed, blink>>
    BY <1>7, AttachTries
  <2>2. QED
    BY <2>1, TriedDisks
<1>8. ASSUME NEW f \in Fronts, NEW p \in Ports, Detach(f, p)
     PROVE  DiskInv'
  <2> DEFINE Z == {<<f, p>>}
  <2>1. UNCHANGED <<vms, exposed, changed>> /\ suspect \subseteq suspect'
    BY <1>8 DEF Detach
  <2>2. Z \in SUBSET (Fronts \X Ports) /\ {} \in SUBSET Ports /\ blink = blink \cup {}
    OBVIOUS
  <2> HIDE DEF Z
  <2>3. TakenAway(Z, {})
    <3>1. CASE held' = Without(Z) /\ blink' = Left(blink)
      BY <2>2, <3>1, AllTakenAway
    <3>2. CASE DetachFails(Z, {})
      BY <2>2, <3>2, DetachFailsEffect
    <3>3. QED
      BY <1>8, <3>1, <3>2 DEF Detach, Z
  <2>4. \A q \in Ports \ {p} : cache'[q] = cache[q]
    <3>1. CASE cache' = [cache EXCEPT ![p] = Free]
      BY <3>1 DEF TypeOK
    <3>2. CASE DetachFails(Z, {})
      <4>1. Untouched(Z)
        BY <2>2, <3>2, DetachFailsEffect
      <4>2. QED
        BY <4>1 DEF Untouched, Z
    <3>3. QED
      BY <1>8, <3>1, <3>2 DEF Detach, Z
  <2>5. held[f][p] # None /\ \A g \in Fronts : held[g][p] # None => g = f
    BY <1>8 DEF Detach, Holders, DiskInv
  <2>6. ASSUME NEW g \in Fronts, NEW q \in Ports, held'[g][q] # None
        PROVE  /\ held'[g][q] = held[g][q] /\ (q \in blink => q \in blink')
               /\ q \notin blink' => q # p
    BY <2>3, <2>5, <2>6 DEF TakenAway, Z
  <2>7. QED
    BY <2>1, <2>4, <2>6 DEF DiskInv, Running, Handled, vms
<1>9. ASSUME NEW f \in Fronts, NEW k \in Keys, unassign(f, k)
     PROVE  DiskInv'
  BY <1>9, DisksAlone DEF unassign, SetMode
<1>10. ASSUME NEW f \in Fronts, NEW k \in Keys, NEW m \in Modes, assign(f, k, m)
     PROVE  DiskInv'
  BY <1>10, DisksAlone DEF assign, SetMode
<1>11. ASSUME NEW f \in Fronts, NEW k \in Keys, NEW m \in Modes, update_assignment(f, k, m)
     PROVE  DiskInv'
  BY <1>11, DisksAlone DEF update_assignment, SetMode
<1>12. ASSUME NEW f \in Fronts, StartCheck(f)
     PROVE  DiskInv'
  <2>1. /\ \A g \in Fronts : Running(g) => Running(g)'
        /\ UNCHANGED <<back, exposed, held, cache, changed, suspect, blink>>
    BY <1>12 DEF StartCheck, Running, TypeOK, history
  <2>2. QED
    BY <2>1 DEF DiskInv, Handled
<1>13. ASSUME NEW f \in Fronts, StartFails(f)
     PROVE  DiskInv'
  <2>1. /\ \A g \in Fronts : Running(g) => Running(g)'
        /\ UNCHANGED <<back, exposed, held, cache, changed, suspect, blink>>
    BY <1>13 DEF StartFails, Running, TypeOK, history
  <2>2. QED
    BY <2>1 DEF DiskInv, Handled
<1>14. ASSUME NEW f \in Fronts, Create(f)
     PROVE  DiskInv'
  <2>1. /\ front' = [front EXCEPT ![f] = "created"] /\ front[f] = "checked"
        /\ \A p \in Needed(f) : Exposes(p) /\ Holders(p) = {}
        /\ suspect' = suspect \cup Needed(f)
        /\ UNCHANGED <<back, exposed, cache, changed, blink>>
    BY <1>14 DEF Create, Needed
  <2>2. \A p \in Ports : held'[f][p] = IF p \in Needed(f) THEN exposed[p] ELSE None
    BY <1>14 DEF Create, TypeOK
  <2>3. \A g \in Fronts \ {f} : held'[g] = held[g] /\ front'[g] = front[g]
    BY <1>14 DEF Create, TypeOK
  <2>4. \A p \in Ports : held[f][p] = None
    BY <2>1 DEF DiskInv, Running
  <2>5. \A p \in Needed(f) : \A g \in Fronts : held[g][p] = None
    BY <2>1 DEF Holders, DiskInv, Needed
  <2>6. front'[f] = "created"
    BY <2>1 DEF TypeOK
  <2>7. ASSUME NEW g \in Fronts, NEW p \in Ports, held'[g][p] # None
        PROVE  /\ Running(g)'
               /\ \A h \in Fronts : held'[h][p] # None => h = g
               /\ p \notin blink => cache[p] = g \/ p \in suspect'
               /\ p \notin blink /\ held'[g][p] # exposed[p] => exposed[p] = None /\ ~Handled
    <3>1. CASE g = f
      <4>1. p \in Needed(f) /\ held'[g][p] = exposed[p]
        BY <2>2, <2>7, <3>1
      <4>2. QED
        BY <2>1, <2>3, <2>5, <2>6, <3>1, <4>1 DEF Running
    <3>2. CASE g # f
      <4>1. held[g][p] # None /\ held'[g][p] = held[g][p] /\ p \notin Needed(f)
        BY <2>3, <2>5, <2>7, <3>2
      <4>2. QED
        BY <2>1, <2>2, <2>3, <3>2, <4>1 DEF DiskInv, Running
    <3>3. QED
      BY <3>1, <3>2
  <2>8. QED
    BY <2>1, <2>7 DEF DiskInv, Handled
<1>15. ASSUME NEW f \in Fronts, on_domain_start(f)
     PROVE  DiskInv'
  <2>1. /\ \A g \in Fronts : Running(g) => Running(g)'
        /\ UNCHANGED <<back, exposed, held, cache, changed, suspect, blink>>
    BY <1>15 DEF on_domain_start, Running, TypeOK, history
  <2>2. QED
    BY <2>1 DEF DiskInv, Handled
<1>16. ASSUME NEW f \in Fronts, Stop(f)
     PROVE  DiskInv'
  <2>1. \A g \in Fronts, q \in Ports : held'[g][q] # None =>
            /\ g # f /\ held'[g][q] = held[g][q] /\ (q \in blink => q \in blink')
    BY <1>16, SMT DEF Stop, Left, TypeOK
  <2>2. \A g \in Fronts : g # f => front'[g] = front[g]
    BY <1>16 DEF Stop, TypeOK
  <2>3. QED
    BY <1>16, <2>1, <2>2 DEF Stop, DiskInv, Running, Handled
<1>17. ASSUME NEW f \in Fronts, detach_attached_devices_on_shutdown(f)
     PROVE  DiskInv'
  <2>1. /\ front[f] = "ended" /\ front' = [front EXCEPT ![f] = "off"]
        /\ UNCHANGED <<back, exposed, held, changed, suspect, blink>>
        /\ \A p \in Ports : cache'[p] = IF cache[p] = f THEN Free ELSE cache[p]
    BY <1>17 DEF detach_attached_devices_on_shutdown, Released, history
  <2>2. \A g \in Fronts : Running(g) => g # f /\ Running(g)'
    BY <2>1 DEF Running, TypeOK
  <2>3. QED
    BY <2>1, <2>2 DEF DiskInv, Handled
<1>18. ASSUME NEW p \in Ports, Unplug(p)
     PROVE  DiskInv'
  <2>1. /\ changed' = TRUE /\ exposed' = [exposed EXCEPT ![p] = None]
        /\ UNCHANGED <<vms, held, cache, suspect, blink>>
    BY <1>18 DEF Unplug, history
  <2>2. ~Handled'
    BY <2>1 DEF Handled
  <2>3. \A q \in Ports : exposed'[q] = None \/ exposed'[q] = exposed[q]
    BY <2>1 DEF TypeOK
  <2>4. QED
    BY <2>1, <2>2, <2>3 DEF DiskInv, Running, vms
<1>19. ASSUME NEW p \in Ports, NEW d \in Devs, Plug(p, d)
     PROVE  DiskInv'
  <2>1. /\ back = "on" /\ exposed[p] = None /\ changed' = TRUE
        /\ exposed' = [exposed EXCEPT ![p] = d]
        /\ blink' = (IF Holders(p) = {} THEN blink ELSE blink \cup {p})
        /\ UNCHANGED <<vms, held, cache, suspect>>
    BY <1>19 DEF Plug
  <2>2. ~Handled'
    BY <2>1 DEF Handled
  <2>3. \A f \in Fronts : held[f][p] # None => p \in blink'
    BY <2>1 DEF DiskInv, Holders
  <2>4. \A q \in Ports \ {p} : exposed'[q] = exposed[q] /\ (q \in blink' <=> q \in blink)
    BY <2>1 DEF TypeOK
  <2>5. QED
    BY <2>1, <2>2, <2>3, <2>4 DEF DiskInv, Running, vms
<1>20. CASE StopBackend
  <2>1. /\ back' = "ended" /\ exposed' = [p \in Ports |-> None]
        /\ UNCHANGED <<front, held, cache, suspect, blink>>
    BY <1>20 DEF StopBackend, history
  <2>2. QED
    BY <2>1 DEF DiskInv, Running, Handled
<1>21. CASE on_domain_shutdown
  <2>1. back = "ended" /\ back' = "off" /\ UNCHANGED <<front, exposed>>
    BY <1>21 DEF on_domain_shutdown
  <2>2. Zombies(Ports) \in SUBSET (Fronts \X Ports) /\ suspect \in SUBSET Ports
    BY ZombiesType DEF TypeOK
  <2>3. TakenAway(Zombies(Ports), suspect)
    <3>1. CASE held' = Without(Zombies(Ports)) /\ blink' = Left(blink \cup suspect)
      BY <3>1, AllTakenAway
    <3>2. CASE DetachFails(Zombies(Ports), suspect)
      BY <2>2, <3>2, DetachFailsEffect
    <3>3. QED
      BY <1>21, <3>1, <3>2 DEF on_domain_shutdown
  <2>4. Gone(Zombies(Ports), Ports)
    BY ZombiesAreDisks
  <2>5. ASSUME NEW f \in Fronts, NEW p \in Ports, held'[f][p] # None
        PROVE  p \in blink' /\ held'[f][p] = held[f][p]
    <3>1. held[f][p] # None
      BY <2>3, <2>5 DEF TakenAway
    <3>2. Running(f) /\ (p \in blink \/ cache[p] = f \/ p \in suspect)
      BY <3>1 DEF DiskInv
    <3>3. cache[p] = f => <<f, p>> \in Zombies(Ports)
      BY <2>4, <3>1, <3>2 DEF Gone
    <3>4. QED
      BY <2>3, <2>5, <3>2, <3>3 DEF TakenAway
  <2>6. QED
    BY <2>1, <2>5 DEF DiskInv, Running
<1>22. CASE StartBackend
  <2>1. /\ back = "off" /\ back' = "on"
        /\ UNCHANGED <<front, exposed, held, cache, changed, suspect, blink>>
    BY <1>22 DEF StartBackend, history
  <2>2. QED
    BY <2>1 DEF DiskInv, Running, Handled
<1>23. CASE Restart
  <2>1. /\ back' = (IF back = "ended" THEN "off" ELSE back)
        /\ \A f \in Fronts : Running(f)' <=> Running(f)
        /\ cache' = Cached /\ UNCHANGED <<exposed, held>>
        /\ blink' = blink \cup {p \in Ports : \E f \in Fronts :
                                     held[f][p] \notin {None, exposed[p]}}
    BY <1>23, SMT DEF Restart, Running, TypeOK
  <2>2. ASSUME NEW f \in Fronts, NEW p \in Ports, held[f][p] # None, p \notin blink'
        PROVE  held[f][p] = exposed[p] /\ cache'[p] = f
    <3>1. held[f][p] = exposed[p]
      BY <2>1, <2>2
    <3>2. Exposes(p) /\ f \in Holders(p)
      BY <2>2, <3>1 DEF DiskInv, Exposes, Holders
    <3>3. QED
      BY <2>1, <3>1, <3>2, CurrentIs DEF Cached, CurrentIsRight
  <2>3. QED
    BY <2>1, <2>2 DEF DiskInv
<1>24. CASE UNCHANGED vars
  BY <1>24, DisksAlone
    DEF vars, vms, history
<1>25. QED
  BY <1>1, <1>2, <1>3, <1>4, <1>5, <1>6, <1>7, <1>8, <1>9, <1>10, <1>11, <1>12, <1>13,
     <1>14, <1>15, <1>16, <1>17, <1>18, <1>19, <1>20, <1>21, <1>22, <1>23, <1>24
    DEF Next

(* What CacheAgrees says of one port.                                       *)
Agrees(p) ==
    \/ cache[p] = Current(p)
    \/ Current(p) = Free /\ cache[p] \in Fronts /\ front[cache[p]] = "ended"

(* It is enough to look at the ports that no step left behind.              *)
LEMMA AgreeingCache ==
    (Handled' => \A p \in Ports : p \notin suspect' => Agrees(p)') => CacheAgrees'
<1>1. (Handled => \A p \in Ports : p \notin suspect => Agrees(p)) => CacheAgrees
  BY DEF CacheAgrees, Agrees
<1>2. ((Handled => \A p \in Ports : p \notin suspect => Agrees(p)) => CacheAgrees)'
  BY <1>1, PTL
<1> QED
  BY <1>2

(* CurrentIs, of the state after a step.                                    *)
LEMMA CurrentStaysRight == DiskInv' => \A p \in Ports : CurrentIsRight(p)'
<1>1. (DiskInv => \A p \in Ports : CurrentIsRight(p))'
  BY CurrentIs, PTL
<1> QED
  BY <1>1

(* Who holds the device of a port, and whether it is there, is all that      *)
(* matters.                                                                  *)
LEMMA SameCurrent ==
    ASSUME DiskInv, DiskInv', NEW p \in Ports, Exposes(p)' <=> Exposes(p),
           \/ \A f \in Fronts : f \in Holders(p)' <=> f \in Holders(p)
           \/ \A f \in Fronts : (Running(f)' <=> Running(f)) /\ held'[f][p] = held[f][p]
    PROVE  Current(p)' = Current(p)
<1>1. \A f : f \in Holders(p)' <=> f \in Holders(p)
  BY DEF Holders
<1>2. CurrentIsRight(p) /\ CurrentIsRight(p)'
  BY CurrentIs, CurrentStaysRight
<1>3. CASE \E f : Exposes(p) /\ f \in Holders(p)
  BY <1>1, <1>2, <1>3 DEF CurrentIsRight
<1>4. CASE ~Exposes(p) \/ Holders(p) = {}
  <2>1. ~Exposes(p)' \/ Holders(p)' = {}
    BY <1>1, <1>4
  <2>2. QED
    BY <1>1, <1>2, <1>4, <2>1 DEF CurrentIsRight
<1> QED
  BY <1>3, <1>4

(* A disk of what is in its port is not one to take away.                    *)
LEMMA LiveDiskStays ==
    ASSUME DiskInv, NEW Z, Gone(Z, Detached), NEW p \in Ports, Exposes(p), NEW f \in Fronts
    PROVE  <<f, p>> \notin Z
<1> SUFFICES ASSUME <<f, p>> \in Z PROVE FALSE
  OBVIOUS
<1>1. p \in Detached /\ cache[p] = f /\ f \in Holders(p)
  BY DEF Gone, Holders
<1>2. Current(p) = f
  BY <1>1, CurrentIs DEF CurrentIsRight
<1> QED
  BY <1>1, <1>2 DEF Detached

(* A step elsewhere.                                                         *)
LEMMA StillAgrees ==
    ASSUME DiskInv, DiskInv', CacheAgrees, NEW p \in Ports \ suspect, Handled,
           UNCHANGED <<back, exposed, front>>, cache'[p] = cache[p],
           \A f \in Fronts : held'[f][p] = held[f][p]
    PROVE  Agrees(p)'
<1>1. Current(p)' = Current(p)
  BY SameCurrent DEF Exposes, Running
<1>2. Agrees(p)
  BY DEF CacheAgrees, Agrees
<1> QED
  BY <1>1, <1>2 DEF Agrees

(* A step that changes nothing the cache is about.                          *)
LEMMA CacheAlone ==
    ASSUME DiskInv, DiskInv', CacheAgrees,
           UNCHANGED <<vms, exposed, held, cache, changed, suspect, blink>>
    PROVE  CacheAgrees'
<1> SUFFICES ASSUME Handled', NEW q \in Ports, q \notin suspect' PROVE Agrees(q)'
  BY AgreeingCache
<1>1. Handled /\ q \in Ports \ suspect
  BY DEF Handled, vms
<1> QED
  BY <1>1, StillAgrees DEF vms

(* An attempt to attach.                                                    *)
LEMMA TriedCache ==
    ASSUME TypeOK, DiskInv, DiskInv', CacheAgrees, NEW f \in Fronts, NEW p \in Ports, Tried(f, p),
           UNCHANGED <<vms, exposed, mode, changed, blink>>
    PROVE  CacheAgrees'
<1>1. CASE UNCHANGED <<cache, held, suspect>>
  BY <1>1, CacheAlone
<1>2. CASE ~UNCHANGED <<cache, held, suspect>>
  <2> SUFFICES ASSUME Handled', NEW q \in Ports, q \notin suspect' PROVE Agrees(q)'
    BY AgreeingCache
  <2>1. Handled
    BY DEF Handled, vms
  <2>2. Running(f) /\ back = "on" /\ cache' = [cache EXCEPT ![p] = f]
    BY <1>2 DEF Tried
  <2>3. CASE q # p
    <3>1. /\ q \in Ports \ suspect /\ cache'[q] = cache[q]
          /\ \A g \in Fronts : held'[g][q] = held[g][q]
      BY <1>2, <2>2, <2>3 DEF Tried, TypeOK
    <3>2. QED
      BY <2>1, <3>1, StillAgrees DEF vms
  <2>4. CASE q = p
    <3>1. exposed[p] # None /\ held' = [held EXCEPT ![f][p] = exposed[p]]
      BY <1>2, <2>4 DEF Tried
    <3>2. Exposes(p)' /\ f \in Holders(p)'
      BY <2>2, <3>1 DEF Exposes, Holders, Running, vms, TypeOK
    <3>3. Current(p)' = f
      BY <3>2, CurrentStaysRight DEF CurrentIsRight
    <3>4. QED
      BY <2>2, <2>4, <3>3 DEF Agrees, TypeOK
  <2>5. QED
    BY <2>3, <2>4
<1> QED
  BY <1>1, <1>2

(* Every step keeps the cache right, or says which ports it left behind.      *)
LEMMA CacheStep ==
    TypeOK /\ TaskInv /\ DiskInv /\ CacheAgrees /\ DiskInv' /\ [Next]_vars => CacheAgrees'
<1> SUFFICES ASSUME TypeOK, TaskInv, DiskInv, CacheAgrees, DiskInv', [Next]_vars
             PROVE  CacheAgrees'
  OBVIOUS
<1>1. CASE OnQdbChange
  <2> DEFINE Z == Zombies(Detached)
  <2>1. Detached \in SUBSET Ports /\ {q \in suspect : ~Exposes(q)} \in SUBSET Ports
    BY DEF Detached, TypeOK
  <2>2. /\ held' = Without(Z) /\ cache' = [p \in Ports |-> Current(p)]
        /\ UNCHANGED <<vms, exposed>>
    BY <1>1 DEF OnQdbChange
  <2>3. Gone(Z, Detached)
    BY <2>1, ZombiesAreDisks
  <2> HIDE DEF Z
  <2> SUFFICES ASSUME Handled', NEW q \in Ports, q \notin suspect' PROVE Agrees(q)'
    BY AgreeingCache
  <2>4. CASE ~Exposes(q)
    <3>1. ~Exposes(q)'
      BY <2>2, <2>4 DEF Exposes, vms
    <3>2. Current(q) = Absent /\ Current(q)' = Absent
      BY <2>4, <3>1 DEF Current
    <3>3. QED
      BY <2>2, <3>2 DEF Agrees
  <2>5. CASE Exposes(q)
    <3>1. \A f \in Fronts : <<f, q>> \notin Z
      BY <2>3, <2>5, LiveDiskStays
    <3>2. \A f \in Fronts : held'[f][q] = held[f][q]
      BY <2>2, <3>1, SMT DEF Without, TypeOK
    <3>3. Current(q)' = Current(q)
      BY <2>2, <3>2, SameCurrent DEF vms, Exposes, Running
    <3>4. QED
      BY <2>2, <3>3 DEF Agrees
  <2>6. QED
    BY <2>4, <2>5
<1>2. CASE OnQdbChangeFails
  <2> DEFINE Z == Zombies(Detached)
  <2> DEFINE B == {p \in suspect : ~Exposes(p)}
  <2>1. Detached \in SUBSET Ports /\ B \in SUBSET Ports /\ Z \in SUBSET (Fronts \X Ports)
    BY ZombiesType DEF Detached, TypeOK
  <2>2. /\ DetachFails(Z, B) /\ UNCHANGED <<vms, exposed>>
        /\ suspect' = suspect \cup {p \in Ports : cache'[p] # Current(p)}
    BY <1>2 DEF OnQdbChangeFails
  <2>3. Untouched(Z) /\ Gone(Z, Detached)
    BY <2>1, <2>2, DetachFailsEffect, ZombiesAreDisks
  <2> HIDE DEF Z
  <2> SUFFICES ASSUME Handled', NEW q \in Ports, q \notin suspect' PROVE Agrees(q)'
    BY AgreeingCache
  <2>4. cache'[q] = Current(q)
    BY <2>2
  <2>5. CASE ~Exposes(q)
    <3>1. ~Exposes(q)'
      BY <2>2, <2>5 DEF Exposes, vms
    <3>2. Current(q) = Absent /\ Current(q)' = Absent
      BY <2>5, <3>1 DEF Current
    <3>3. QED
      BY <2>4, <3>2 DEF Agrees
  <2>6. CASE Exposes(q)
    <3>1. \A f \in Fronts : <<f, q>> \notin Z
      BY <2>3, <2>6, LiveDiskStays
    <3>2. \A f \in Fronts : held'[f][q] = held[f][q]
      BY <2>3, <3>1 DEF Untouched
    <3>3. Current(q)' = Current(q)
      BY <2>2, <3>2, SameCurrent DEF vms, Exposes, Running
    <3>4. QED
      BY <2>4, <3>3 DEF Agrees
  <2>7. QED
    BY <2>5, <2>6
<1>3. ASSUME NEW t \in tasks, RunTask(t)
     PROVE  CacheAgrees'
  <2>1. ASSUME NEW i \in t.items, Waits(t, i, "choose") \/ Waits(t, i, "confirm")
        PROVE  CacheAgrees'
    BY <2>1, CacheAlone DEF Waits, history
  <2>2. ASSUME NEW i \in t.items, NEW f \in DOMAIN i.wants, NEW known,
               attach_and_notify(t, i, f, known)
        PROVE  CacheAgrees'
    BY <2>2, AttemptTries, TriedCache DEF TaskInv, TaskOK, ItemOK
  <2>3. QED
    BY <1>3, <2>1, <2>2 DEF RunTask
<1>4. ASSUME NEW t \in tasks, Chosen(t)
     PROVE  CacheAgrees'
  <2>1. t.now.port \in Ports /\ DOMAIN t.now.wants \subseteq Fronts
    BY <1>4 DEF Chosen, TaskInv, TaskOK, ItemOK
  <2>2. QED
    BY <1>4, <2>1, AttemptTries, TriedCache DEF Chosen
<1>5. ASSUME NEW t \in tasks, Confirmed(t)
     PROVE  CacheAgrees'
  <2>1. t.now.port \in Ports /\ DOMAIN t.now.wants \subseteq Fronts
    BY <1>5 DEF Confirmed, TaskInv, TaskOK, ItemOK
  <2>2. QED
    BY <1>5, <2>1, AttemptTries, TriedCache DEF Confirmed
<1>6. ASSUME NEW t \in tasks, Denied(t)
     PROVE  CacheAgrees'
  BY <1>6, CacheAlone DEF Denied
<1>7. ASSUME NEW f \in Fronts, NEW p \in Ports, Attach(f, p)
     PROVE  CacheAgrees'
  <2>1. Tried(f, p) /\ UNCHANGED <<vms, exposed, mode, changed, blink>>
    BY <1>7, AttachTries
  <2>2. QED
    BY <2>1, TriedCache
<1>8. ASSUME NEW f \in Fronts, NEW p \in Ports, Detach(f, p)
     PROVE  CacheAgrees'
  <2> DEFINE Z == {<<f, p>>}
  <2>1. UNCHANGED <<vms, exposed, changed>> /\ suspect \subseteq suspect' /\ f \in Holders(p)
    BY <1>8 DEF Detach
  <2>2. Z \in SUBSET (Fronts \X Ports) /\ {} \in SUBSET Ports
    OBVIOUS
  <2> HIDE DEF Z
  <2> SUFFICES ASSUME Handled', NEW q \in Ports, q \notin suspect' PROVE Agrees(q)'
    BY AgreeingCache
  <2>3. CASE q # p
    <3>1. cache'[q] = cache[q] /\ \A g \in Fronts : held'[g][q] = held[g][q]
      <4>1. CASE held' = Without(Z) /\ cache' = [cache EXCEPT ![p] = Free]
        <5>1. \A g \in Fronts : <<g, q>> \notin Z
          BY <2>3 DEF Z
        <5>2. \A g \in Fronts : held'[g][q] = held[g][q]
          BY <4>1, <5>1, SMT DEF Without, TypeOK
        <5>3. QED
          BY <2>3, <4>1, <5>2 DEF TypeOK
      <4>2. CASE DetachFails(Z, {})
        <5>1. Untouched(Z)
          BY <2>2, <4>2, DetachFailsEffect
        <5>2. QED
          BY <2>3, <5>1 DEF Untouched, Z
      <4>3. QED
        BY <1>8, <4>1, <4>2 DEF Detach, Z
    <3>2. Handled /\ q \notin suspect
      BY <2>1 DEF Handled, vms
    <3>3. QED
      BY <2>1, <3>1, <3>2, StillAgrees DEF vms
  <2>4. CASE q = p
    <3>1. /\ cache' = [cache EXCEPT ![p] = Free] /\ held' = Without(Z)
          /\ Exposes(p) \/ changed
      BY <1>8, <2>4 DEF Detach, Z
    <3>2. Exposes(p)'
      BY <2>1, <3>1 DEF Handled, Exposes, vms
    <3>3. \A g \in Fronts : held'[g][p] = IF <<g, p>> \in Z THEN None ELSE held[g][p]
      BY <3>1, WithoutEffect
    <3>4. \A g \in Fronts : held'[g][p] = None
      BY <2>1, <3>3 DEF DiskInv, Holders, Z
    <3>5. Current(p)' = Free
      BY <3>2, <3>4 DEF Current, Holders
    <3>6. QED
      BY <2>4, <3>1, <3>5 DEF Agrees, TypeOK
  <2>5. QED
    BY <2>3, <2>4
<1>9. ASSUME NEW f \in Fronts, NEW k \in Keys, unassign(f, k)
     PROVE  CacheAgrees'
  BY <1>9, CacheAlone DEF unassign, SetMode
<1>10. ASSUME NEW f \in Fronts, NEW k \in Keys, NEW m \in Modes, assign(f, k, m)
     PROVE  CacheAgrees'
  BY <1>10, CacheAlone DEF assign, SetMode
<1>11. ASSUME NEW f \in Fronts, NEW k \in Keys, NEW m \in Modes, update_assignment(f, k, m)
     PROVE  CacheAgrees'
  BY <1>11, CacheAlone DEF update_assignment, SetMode
<1>12. ASSUME NEW f \in Fronts, StartCheck(f)
     PROVE  CacheAgrees'
  <2>1. /\ \A g \in Fronts : /\ Running(g)' <=> Running(g)
                             /\ front[g] = "ended" => front'[g] = "ended"
        /\ UNCHANGED <<back, exposed, held, cache, changed, suspect>>
    BY <1>12 DEF StartCheck, Running, TypeOK, history
  <2> SUFFICES ASSUME Handled', NEW q \in Ports, q \notin suspect' PROVE Agrees(q)'
    BY AgreeingCache
  <2>2. Current(q)' = Current(q)
    BY <2>1, SameCurrent DEF Exposes
  <2>3. Agrees(q)
    BY <2>1 DEF CacheAgrees, Handled, Agrees
  <2>4. QED
    BY <2>1, <2>2, <2>3 DEF Agrees
<1>13. ASSUME NEW f \in Fronts, StartFails(f)
     PROVE  CacheAgrees'
  <2>1. /\ \A g \in Fronts : /\ Running(g)' <=> Running(g)
                             /\ front[g] = "ended" => front'[g] = "ended"
        /\ UNCHANGED <<back, exposed, held, cache, changed, suspect>>
    BY <1>13 DEF StartFails, Running, TypeOK, history
  <2> SUFFICES ASSUME Handled', NEW q \in Ports, q \notin suspect' PROVE Agrees(q)'
    BY AgreeingCache
  <2>2. Current(q)' = Current(q)
    BY <2>1, SameCurrent DEF Exposes
  <2>3. Agrees(q)
    BY <2>1 DEF CacheAgrees, Handled, Agrees
  <2>4. QED
    BY <2>1, <2>2, <2>3 DEF Agrees
<1>14. ASSUME NEW f \in Fronts, Create(f)
     PROVE  CacheAgrees'
  <2>1. /\ front' = [front EXCEPT ![f] = "created"] /\ front[f] = "checked"
        /\ suspect' = suspect \cup Needed(f)
        /\ UNCHANGED <<back, exposed, cache, changed>>
        /\ held' = [held EXCEPT ![f] =
                       [p \in Ports |-> IF p \in Needed(f) THEN exposed[p] ELSE None]]
    BY <1>14 DEF Create
  <2> SUFFICES ASSUME Handled', NEW q \in Ports, q \notin suspect' PROVE Agrees(q)'
    BY AgreeingCache
  <2>2. /\ held'[f][q] = None
        /\ \A g \in Fronts \ {f} : front'[g] = front[g] /\ held'[g] = held[g]
    BY <2>1 DEF TypeOK
  <2>3. \A g \in Fronts : g \in Holders(q)' <=> g \in Holders(q)
    BY <2>1, <2>2 DEF Holders, Running
  <2>4. Current(q)' = Current(q)
    BY <2>1, <2>3, SameCurrent DEF Exposes
  <2>5. Agrees(q)
    BY <2>1 DEF CacheAgrees, Handled, Agrees
  <2>6. \A g \in Fronts : front[g] = "ended" => front'[g] = "ended"
    BY <2>1, <2>2
  <2>7. QED
    BY <2>1, <2>4, <2>5, <2>6 DEF Agrees
<1>15. ASSUME NEW f \in Fronts, on_domain_start(f)
     PROVE  CacheAgrees'
  <2>1. /\ \A g \in Fronts : /\ Running(g)' <=> Running(g)
                             /\ front[g] = "ended" => front'[g] = "ended"
        /\ UNCHANGED <<back, exposed, held, cache, changed, suspect>>
    BY <1>15 DEF on_domain_start, Running, TypeOK, history
  <2> SUFFICES ASSUME Handled', NEW q \in Ports, q \notin suspect' PROVE Agrees(q)'
    BY AgreeingCache
  <2>2. Current(q)' = Current(q)
    BY <2>1, SameCurrent DEF Exposes
  <2>3. Agrees(q)
    BY <2>1 DEF CacheAgrees, Handled, Agrees
  <2>4. QED
    BY <2>1, <2>2, <2>3 DEF Agrees
<1>16. ASSUME NEW f \in Fronts, Stop(f)
     PROVE  CacheAgrees'
  <2>1. /\ Running(f) /\ front' = [front EXCEPT ![f] = "ended"]
        /\ held' = [held EXCEPT ![f] = [p \in Ports |-> None]]
        /\ UNCHANGED <<back, exposed, cache, changed, suspect>>
    BY <1>16 DEF Stop
  <2> SUFFICES ASSUME Handled', NEW q \in Ports, q \notin suspect' PROVE Agrees(q)'
    BY AgreeingCache
  <2>2. Agrees(q) /\ CurrentIsRight(q) /\ CurrentIsRight(q)'
    BY <2>1, CurrentIs, CurrentStaysRight DEF CacheAgrees, Agrees, Handled
  <2>3. Exposes(q)' <=> Exposes(q)
    BY <2>1 DEF Exposes
  <2>4. /\ front'[f] = "ended" /\ held'[f][q] = None
        /\ \A g \in Fronts \ {f} : front'[g] = front[g] /\ held'[g] = held[g]
    BY <2>1 DEF TypeOK
  <2>5. CASE Exposes(q) /\ f \in Holders(q)
    <3>1. Current(q) = f
      BY <2>2, <2>5 DEF CurrentIsRight
    <3>2. Holders(q)' = {}
      BY <2>4, <2>5 DEF Holders, DiskInv
    <3>3. Current(q)' = Free
      BY <2>2, <2>3, <2>5, <3>2 DEF CurrentIsRight
    <3>4. cache[q] = f
      BY <2>2, <3>1, DevicesAssumption DEF Agrees, DevicesAssumption
    <3>5. QED
      BY <2>1, <2>4, <3>3, <3>4 DEF Agrees
  <2>6. CASE ~(Exposes(q) /\ f \in Holders(q))
    <3>1. Current(q)' = Current(q)
      <4>1. CASE ~Exposes(q)
        BY <2>2, <2>3, <4>1 DEF CurrentIsRight
      <4>2. CASE f \notin Holders(q)
        <5>1. \A g \in Fronts : g \in Holders(q)' <=> g \in Holders(q)
          BY <2>1, <2>4, <4>2 DEF Holders, Running
        <5>2. QED
          BY <2>3, <5>1, SameCurrent
      <4>3. QED
        BY <2>6, <4>1, <4>2
    <3>2. \A g \in Fronts : front[g] = "ended" => front'[g] = "ended"
      BY <2>4
    <3>3. QED
      BY <2>1, <2>2, <3>1, <3>2 DEF Agrees
  <2>7. QED
    BY <2>5, <2>6
<1>17. ASSUME NEW f \in Fronts, detach_attached_devices_on_shutdown(f)
     PROVE  CacheAgrees'
  <2>1. /\ front[f] = "ended" /\ front' = [front EXCEPT ![f] = "off"]
        /\ UNCHANGED <<back, exposed, held, changed, suspect>>
        /\ \A p \in Ports : cache'[p] = IF cache[p] = f THEN Free ELSE cache[p]
    BY <1>17 DEF detach_attached_devices_on_shutdown, Released, history
  <2> SUFFICES ASSUME Handled', NEW q \in Ports, q \notin suspect' PROVE Agrees(q)'
    BY AgreeingCache
  <2>2. \A g \in Fronts : (Running(g)' <=> Running(g)) /\ (g # f => front'[g] = front[g])
    BY <2>1 DEF Running, TypeOK
  <2>3. Current(q)' = Current(q) /\ Current(q) # f
    <3>1. Current(q)' = Current(q)
      BY <2>1, <2>2, SameCurrent DEF Exposes
    <3>2. f \notin Holders(q)
      BY <2>1 DEF Holders, Running
    <3>3. Current(q) \in Holders(q) \cup {Free, Absent}
      BY DEF Current
    <3>4. QED
      BY <3>1, <3>2, <3>3, DevicesAssumption DEF DevicesAssumption
  <2>4. Agrees(q)
    BY <2>1 DEF CacheAgrees, Handled, Agrees
  <2>5. CASE cache[q] = f
    BY <2>1, <2>3, <2>4, <2>5 DEF Agrees
  <2>6. CASE cache[q] # f
    BY <2>1, <2>2, <2>3, <2>4, <2>6 DEF Agrees
  <2>7. QED
    BY <2>5, <2>6
<1>18. ASSUME NEW p \in Ports, Unplug(p)
     PROVE  CacheAgrees'
  <2>1. ~Handled'
    BY <1>18 DEF Unplug, Handled
  <2>2. QED
    BY <2>1 DEF CacheAgrees
<1>19. ASSUME NEW p \in Ports, NEW d \in Devs, Plug(p, d)
     PROVE  CacheAgrees'
  <2>1. ~Handled'
    BY <1>19 DEF Plug, Handled
  <2>2. QED
    BY <2>1 DEF CacheAgrees
<1>20. CASE StopBackend
  <2>1. ~Handled'
    BY <1>20 DEF StopBackend, Handled
  <2>2. QED
    BY <2>1 DEF CacheAgrees
<1>21. CASE on_domain_shutdown
  <2> SUFFICES ASSUME Handled', NEW q \in Ports, q \notin suspect' PROVE Agrees(q)'
    BY AgreeingCache
  <2>1. back' = "off" /\ cache'[q] = Absent
    BY <1>21 DEF on_domain_shutdown
  <2>2. Current(q)' = Absent
    BY <2>1 DEF Current, Exposes
  <2>3. QED
    BY <2>1, <2>2 DEF Agrees
<1>22. CASE StartBackend
  <2>1. /\ back = "off" /\ back' = "on"
        /\ UNCHANGED <<front, exposed, held, cache, changed, suspect>>
    BY <1>22 DEF StartBackend, history
  <2> SUFFICES ASSUME Handled', NEW q \in Ports, q \notin suspect' PROVE Agrees(q)'
    BY AgreeingCache
  <2>2. ~Exposes(q) /\ ~Exposes(q)'
    BY <2>1 DEF DiskInv, Exposes
  <2>3. Current(q) = Absent /\ Current(q)' = Absent
    BY <2>2 DEF Current
  <2>4. Agrees(q)
    BY <2>1 DEF CacheAgrees, Handled, Agrees
  <2>5. QED
    BY <2>1, <2>3, <2>4 DEF Agrees
<1>23. CASE Restart
  <2> SUFFICES ASSUME Handled', NEW q \in Ports, q \notin suspect' PROVE Agrees(q)'
    BY AgreeingCache
  <2>1. /\ back' = (IF back = "ended" THEN "off" ELSE back)
        /\ \A f \in Fronts : Running(f)' <=> Running(f)
        /\ cache' = Cached /\ UNCHANGED <<exposed, held>>
    BY <1>23, SMT DEF Restart, Running, TypeOK
  <2>2. Current(q)' = Current(q)
    BY <2>1, SameCurrent DEF Exposes
  <2>3. QED
    BY <2>1, <2>2 DEF Agrees, Cached
<1>24. CASE UNCHANGED vars
  BY <1>24, CacheAlone
    DEF vars, vms, history
<1>25. QED
  BY <1>1, <1>2, <1>3, <1>4, <1>5, <1>6, <1>7, <1>8, <1>9, <1>10, <1>11, <1>12, <1>13,
     <1>14, <1>15, <1>16, <1>17, <1>18, <1>19, <1>20, <1>21, <1>22, <1>23, <1>24
    DEF Next

(* The inductive invariant of the block devices.                             *)
THEOREM DevicesInvariant == Spec => []DevicesInv
<1>1. Init => DevicesInv
  <2> SUFFICES ASSUME Init PROVE TypeOK /\ TaskInv /\ DiskInv /\ CacheAgrees
    BY DEF DevicesInv
  <2> USE DevicesAssumption DEF DevicesAssumption
  <2>1. TaskInv
    BY DEF Init, TaskInv
  <2>2. cache \in [Ports -> Fronts \cup {Free, Absent}]
    BY CurrentType DEF Init, Cached
  <2>3. changed \in BOOLEAN
    BY Zenon DEF Init
  <2>4. held \in [Fronts -> [Ports -> Devs \cup {None}]] /\ happened \in 0..MaxEvents
    BY SMT DEF Init
  <2>5. /\ front \in [Fronts -> {"off", "checked", "created", "on", "ended"}]
        /\ suspect \subseteq Ports /\ blink \subseteq Ports
        /\ excused \subseteq Ports /\ skipped \subseteq Ports
    BY DEF Init
  <2>6. TypeOK
    BY <2>2, <2>3, <2>4, <2>5 DEF Init, TypeOK
  <2>7. DiskInv
    BY DEF Init, DiskInv
  <2>8. CacheAgrees
    BY DEF Init, Cached, CacheAgrees
  <2>9. QED
    BY <2>1, <2>6, <2>7, <2>8
<1>2. DevicesInv /\ [Next]_vars => DevicesInv'
  BY TypeStep, TaskStep, DiskStep, CacheStep DEF DevicesInv
<1> QED
  BY <1>1, <1>2, PTL DEF Spec

(* Whatever is plugged, attached, detached, started or stopped, and whichever *)
(* call fails: the cache agrees with QubesDB and libvirt once the changes are *)
(* handled, but for a frontend whose end is not and the ports named.          *)
THEOREM CacheIsRight == Spec => []CacheAgrees
<1>1. DevicesInv => CacheAgrees
  BY DEF DevicesInv
<1> QED
  BY <1>1, DevicesInvariant, PTL

(* And a qube's disk is backed by the device it was made for, or gone.        *)
THEOREM DisksAreBacked == Spec => []HoldsWhatIsThere
<1>1. DevicesInv => HoldsWhatIsThere
  BY DEF DevicesInv, DiskInv, HoldsWhatIsThere
<1> QED
  BY <1>1, DevicesInvariant, PTL


(* An item is about the device that is in its port when it is made, and for  *)
(* those of its qubes that want it.                                          *)
LEMMA ItemIs ==
    ASSUME NEW p, NEW F, NEW M, NEW f \in F, Wish(f, p, M) # {}
    PROVE  /\ Item(p, F, M).port = p /\ Item(p, F, M).dev = exposed[p]
           /\ f \in DOMAIN Item(p, F, M).wants
<1> DEFINE D == {g \in F : Wish(g, p, M) # {}}
<1> DEFINE w == [g \in D |-> CHOOSE m \in Wish(g, p, M) : TRUE]
<1>1. Item(p, F, M) = [port |-> p, dev |-> exposed[p], wants |-> w]
  BY DEF Item
<1>2. f \in DOMAIN w
  OBVIOUS
<1> HIDE DEF w
<1> QED
  BY <1>1, <1>2

(* A qube with fitting assignments has a wish: there is a most specific one. *)
LEMMA WishIsThere ==
    ASSUME NEW f, NEW p, NEW M, NEW k \in Keys, mode[f][k] \in M, Matches(k, p)
    PROVE  Wish(f, p, M) # {}
<1> DEFINE fits == {j \in Keys : mode[f][j] \in M /\ Matches(j, p)}
<1>1. \A j \in fits : Rank(j) \in {0, 1, 2, 3}
  BY DEF Rank
<1>2. k \in fits
  OBVIOUS
<1>3. Wish(f, p, M) = {mode[f][j] : j \in {j \in fits : \A l \in fits : Rank(l) <= Rank(j)}}
  BY DEF Wish
<1> HIDE DEF fits
<1>4. \E j \in fits : \A l \in fits : Rank(l) <= Rank(j)
  <2>1. CASE \E j \in fits : Rank(j) = 3
    BY <1>1, <2>1
  <2>2. CASE (\A j \in fits : Rank(j) # 3) /\ \E j \in fits : Rank(j) = 2
    BY <1>1, <2>2
  <2>3. CASE (\A j \in fits : Rank(j) \notin {2, 3}) /\ \E j \in fits : Rank(j) = 1
    BY <1>1, <2>3
  <2>4. CASE \A j \in fits : Rank(j) = 0
    BY <1>1, <1>2, <2>4
  <2>5. QED
    BY <1>1, <2>1, <2>2, <2>3, <2>4
<1> QED
  BY <1>3, <1>4

(* What is required is wished for.                                          *)
LEMMA RequiredIsWished ==
    ASSUME NEW f, NEW p, Required(f, p)
    PROVE  Wish(f, p, Modes) # {}
BY WishIsThere DEF Required, Modes

(* What is not only to be asked about is required or is among the rest.      *)
LEMMA WishOrRequired ==
    ASSUME NEW f, NEW p, ~(Wish(f, p, Modes) \subseteq {"ask"})
    PROVE  Wish(f, p, {"auto", "ask"}) # {} \/ Required(f, p)
<1>1. PICK m \in Wish(f, p, Modes) : m # "ask"
  OBVIOUS
<1>2. PICK k \in Keys : m = mode[f][k] /\ mode[f][k] \in Modes /\ Matches(k, p)
  BY <1>1 DEF Wish
<1>3. CASE m = "required"
  BY <1>2, <1>3 DEF Required
<1>4. CASE m = "auto"
  <2>1. mode[f][k] \in {"auto", "ask"}
    BY <1>2, <1>4
  <2>2. QED
    BY <1>2, <2>1, WishIsThere
<1> QED
  BY <1>1, <1>2, <1>3, <1>4 DEF Modes

(* What is needed is wished for, by a qube that runs.                       *)
LEMMA NeededIsWished ==
    ASSUME NEW f, NEW p, Needs(f, p)
    PROVE  Wish(f, p, Modes) # {} /\ Running(f)
BY RequiredIsWished DEF Needs, Running

(* What a qube needs depends on its own state and assignments and what is in *)
(* the port.                                                                 *)
LEMMA SameWish ==
    ASSUME NEW f, NEW p, exposed'[p] = exposed[p],
           \A k \in Keys : Matches(k, p) => mode'[f][k] = mode[f][k]
    PROVE  /\ Wish(f, p, Modes)' = Wish(f, p, Modes)
           /\ Required(f, p)' <=> Required(f, p)
<1>1. \A k : Matches(k, p)' <=> Matches(k, p)
  BY DEF Matches
<1>2. Required(f, p)' <=> Required(f, p)
  BY <1>1 DEF Required
<1>3. Wish(f, p, Modes)' = Wish(f, p, Modes)
  <2>1. {k \in Keys : mode'[f][k] \in Modes /\ Matches(k, p)'}
        = {k \in Keys : mode[f][k] \in Modes /\ Matches(k, p)}
    BY <1>1
  <2> DEFINE fits == {k \in Keys : mode[f][k] \in Modes /\ Matches(k, p)}
  <2> DEFINE top == {k \in fits : \A j \in fits : Rank(j) <= Rank(k)}
  <2>2. Wish(f, p, Modes) = {mode[f][k] : k \in top}
    BY DEF Wish
  <2>3. Wish(f, p, Modes)' = {mode'[f][k] : k \in top}
    BY <2>1 DEF Wish, Rank
  <2>4. \A k \in top : mode'[f][k] = mode[f][k]
    OBVIOUS
  <2> HIDE DEF top
  <2>5. QED
    BY <2>2, <2>3, <2>4
<1> QED
  BY <1>2, <1>3

(* A qube needs the same where nothing of it has changed.                   *)
LEMMA SameNeeds ==
    ASSUME NEW f, NEW p, front'[f] = front[f], exposed'[p] = exposed[p],
           \A k \in Keys : Matches(k, p) => mode'[f][k] = mode[f][k]
    PROVE  Needs(f, p)' <=> Needs(f, p)
BY SameWish DEF Needs

(* Who waits after a step that only adds excuses and disks waited before.    *)
LEMMA WaitedBefore ==
    ASSUME NEW f \in Fronts, NEW p \in Ports, Waiting(f, p)',
           back' = back, exposed'[p] = exposed[p], front'[f] = front[f],
           \A k \in Keys : Matches(k, p) => mode'[f][k] = mode[f][k],
           \A g \in Fronts : g \in Holders(p) => g \in Holders(p)',
           p \in excused \cup skipped => p \in excused' \cup skipped'
    PROVE  Waiting(f, p)
<1>1. Needs(f, p)
  BY SameNeeds DEF Waiting
<1>2. Exposes(p)
  BY DEF Waiting, Exposes
<1>3. Holders(p) = {}
  BY DEF Waiting, Holders
<1> QED
  BY <1>1, <1>2, <1>3 DEF Waiting

(* And what was coming still is, if nothing was done about the port.         *)
LEMMA StillComing ==
    ASSUME NEW f, NEW p, Coming(f, p), tasks \subseteq tasks',
           exposed'[p] = exposed[p], cache[p] = Absent => cache'[p] = Absent,
           changed => changed', p \in suspect => p \in suspect'
    PROVE  Coming(f, p)'
BY DEF Coming, Brings

(* A step that does neither.                                                 *)
LEMMA ServeAlone ==
    ASSUME ServeInv, UNCHANGED <<back, exposed, held, cache, mode, changed, tasks>>,
           \A f \in Fronts : front[f] \in {"created", "on"} \/ front'[f] \in {"created", "on"}
                => front'[f] = front[f],
           suspect \subseteq suspect', excused \subseteq excused', skipped \subseteq skipped'
    PROVE  ServeInv'
<1>1. ASSUME NEW f \in Fronts, NEW p \in Ports, Waiting(f, p)' PROVE Coming(f, p)'
  <2>1. front'[f] = front[f]
    BY <1>1 DEF Waiting, Needs
  <2>2. \A g \in Fronts : g \in Holders(p) => g \in Holders(p)'
    BY DEF Holders, Running
  <2>3. Waiting(f, p)
    BY <1>1, <2>1, <2>2, WaitedBefore
  <2>4. QED
    BY <2>3, StillComing DEF ServeInv
<1> QED
  BY <1>1 DEF ServeInv

(* An attempt of a task.  It attaches the device, or it is excused; only one *)
(* for another qube or another device is given up.                           *)
LEMMA AttemptServes ==
    ASSUME TypeOK, TaskInv, ServeInv, NEW t \in tasks, NEW i \in t.items, NEW g \in DOMAIN i.wants,
           NEW known, attach_and_notify(t, i, g, known),
           \A f \in Fronts : Brings(t, i, f, i.port) =>
                t.stage = "choose" \/ (f = g /\ (Exposes(i.port) => known))
    PROVE  ServeInv'
<1> USE DevicesAssumption DEF DevicesAssumption
<1>0. TaskOK(t) /\ g \in Fronts /\ i.port \in Ports
  BY DEF TaskInv, TaskOK, ItemOK
<1>1. UNCHANGED <<back, front, exposed, mode, changed>>
  BY DEF attach_and_notify, vms
<1>2. excused \subseteq excused' /\ suspect \subseteq suspect' /\ skipped \subseteq skipped'
  BY DEF attach_and_notify, AttachFails, Drop
<1>3. \/ held' = held
      \/ /\ held' = [held EXCEPT ![g][i.port] = exposed[i.port]]
         /\ exposed[i.port] # None /\ Running(g)
  BY DEF attach_and_notify, AttachFails, Attached, Refused
<1>4. \A p \in Ports : \A h \in Fronts : h \in Holders(p) => h \in Holders(p)'
  <2>1. \A h \in Fronts, p \in Ports : held[h][p] # None => held'[h][p] # None
    <3>1. CASE held' = held
      BY <3>1
    <3>2. CASE held' = [held EXCEPT ![g][i.port] = exposed[i.port]] /\ exposed[i.port] # None
      BY <1>0, <3>2, SMT DEF TypeOK
    <3> QED
      BY <1>3, <3>1, <3>2
  <2>2. \A h \in Fronts : Running(h) => Running(h)'
    BY <1>1 DEF Running
  <2> QED
    BY <2>1, <2>2 DEF Holders
<1>5. \A p \in Ports : p # i.port => cache'[p] = cache[p]
  BY DEF attach_and_notify, AttachFails, Attached, TypeOK
<1>6. \A s \in tasks : s # t => s \in tasks'
  BY DEF attach_and_notify, AttachFails, Attached, Drop, NextItem
<1>7. \A j \in t.items : j # i => j.port \in skipped'
            \/ \E s \in tasks' : j \in s.items /\ s.stage = "ready"
  <2>1. CASE Drop(t, i)
    BY <2>1 DEF Drop
  <2>2. CASE NextItem(t, i)
    <3> DEFINE s == [t EXCEPT !.items = t.items \ {i}, !.stage = "ready", !.now = None,
                              !.known = FALSE]
    <3> SUFFICES ASSUME NEW j \in t.items, j # i
                 PROVE  \E u \in tasks' : j \in u.items /\ u.stage = "ready"
      OBVIOUS
    <3>1. s \in tasks'
      BY <2>2 DEF NextItem
    <3>2. s.items = t.items \ {i} /\ s.stage = "ready"
      BY <1>0, SMT DEF TaskOK
    <3>3. QED
      BY <3>1, <3>2
  <2>3. QED
    BY <2>1, <2>2 DEF attach_and_notify
<1>8. \A s \in tasks' : s \in tasks \/ s.stage = "ready"
  <2>1. [t EXCEPT !.items = t.items \ {i}, !.stage = "ready", !.now = None,
                  !.known = FALSE].stage = "ready"
    BY <1>0, SMT DEF TaskOK
  <2>2. QED
    BY <2>1 DEF attach_and_notify, AttachFails, Drop, NextItem
<1>9. ASSUME NEW f \in Fronts, NEW p \in Ports, Waiting(f, p)' PROVE Coming(f, p)'
  <2>1. Waiting(f, p)
    BY <1>1, <1>2, <1>4, <1>9, WaitedBefore
  <2>2. Coming(f, p)
    BY <2>1 DEF ServeInv
  <2>3. CASE p # i.port /\ cache[p] = Absent /\ (changed \/ p \in suspect)
    BY <1>1, <1>2, <1>5, <2>3 DEF Coming
  <2>4. CASE \E s \in tasks : s # t /\ \E j \in s.items : Brings(s, j, f, p)
    <3>1. PICK s \in tasks : s # t /\ \E j \in s.items : Brings(s, j, f, p)
      BY <2>4
    <3>2. s \in tasks'
      BY <1>6, <3>1
    <3>3. QED
      BY <1>1, <3>1, <3>2 DEF Coming, Brings
  <2>5. CASE \E j \in t.items : j # i /\ Brings(t, j, f, p)
    <3>1. PICK j \in t.items : j # i /\ Brings(t, j, f, p)
      BY <2>5
    <3>2. PICK s \in tasks' : j \in s.items /\ s.stage = "ready"
      BY <1>7, <1>9, <3>1 DEF Brings, Waiting
    <3>3. Brings(s, j, f, p)'
      BY <1>1, <3>1, <3>2 DEF Brings
    <3>4. QED
      BY <3>2, <3>3 DEF Coming
  <2>6. CASE p = i.port
    <3>1. Refused(g, p, known) \/ ~Attached(g, p)
      <4>1. Refused(g, p, known) \/ ~Attached(g, p) \/ (Running(g)' /\ held'[g][p] # None)
        BY <1>0, <1>1, <2>6 DEF Attached, Refused, Running, TypeOK
      <4>2. QED
        BY <1>0, <1>9, <4>1 DEF Waiting, Holders
    <3>2. p \notin excused'
      BY <1>9 DEF Waiting
    <3>3. Refused(g, p, known) /\ cache' = cache /\ t.stage # "choose"
      BY <2>6, <3>1, <3>2, <1>0 DEF attach_and_notify, AttachFails, TypeOK
    <3>4. CASE Brings(t, i, f, p)
      <4>1. f = g /\ known
        BY <2>1, <2>6, <3>3, <3>4 DEF Waiting
      <4>2. QED
        BY <2>1, <3>3, <4>1, NeededIsWished DEF Waiting, Refused, Exposes
    <3>5. CASE cache[p] = Absent /\ (changed \/ p \in suspect)
      BY <1>1, <1>2, <3>3, <3>5 DEF Coming
    <3>6. QED
      BY <2>2, <2>4, <2>5, <3>4, <3>5 DEF Coming
  <2>7. QED
    BY <2>2, <2>3, <2>4, <2>5, <2>6 DEF Coming, Brings
<1> QED
  BY <1>8, <1>9 DEF ServeInv

(* A question of a task keeps its item, with the device it knows.            *)
LEMMA QuestionServes ==
    ASSUME TaskInv, ServeInv, NEW t \in tasks, NEW i \in t.items,
           \/ Waits(t, i, "choose")
           \/ Waits(t, i, "confirm") /\ \A f, g \in DOMAIN i.wants : f = g
    PROVE  ServeInv'
<1>0. PICK stage \in {"choose", "confirm"} :
        /\ Waits(t, i, stage)
        /\ stage = "confirm" => \A f, g \in DOMAIN i.wants : f = g
  OBVIOUS
<1> DEFINE asked == [t EXCEPT !.stage = stage, !.now = i, !.known = Known(i)]
<1>a. /\ asked.items = t.items /\ asked.stage = stage /\ asked.now = i /\ asked.known = Known(i)
  BY SMT DEF TaskInv, TaskOK
<1>b. PICK s : s = asked
  OBVIOUS
<1>1. /\ s.items = t.items /\ s.stage = stage /\ s.now = i /\ s.known = Known(i)
  BY <1>a, <1>b
<1>2. /\ UNCHANGED <<vms, exposed, held, cache, mode, changed, history>>
      /\ tasks' = (tasks \ {t}) \cup {s}
  BY <1>0, <1>b DEF Waits
<1> HIDE DEF asked
<1>3. ASSUME NEW f \in Fronts, NEW p \in Ports, Waiting(f, p)' PROVE Coming(f, p)'
  <2>1. Waiting(f, p)
    BY <1>2, <1>3, WaitedBefore DEF vms, history, Holders, Running
  <2>2. CASE cache[p] = Absent /\ (changed \/ p \in suspect)
    BY <1>2, <2>2 DEF Coming, history
  <2>3. ASSUME NEW u \in tasks, NEW j \in u.items, Brings(u, j, f, p) PROVE Coming(f, p)'
    <3>1. CASE u # t
      BY <1>2, <2>3, <3>1 DEF Coming, Brings
    <3>2. CASE u = t
      <4>1. j = i => s.known
        BY <1>1, <2>1, <2>3 DEF Brings, Known, Waiting
      <4>2. s \in tasks' /\ j \in s.items /\ Brings(s, j, f, p)'
        BY <1>1, <1>2, <2>3, <3>2, <4>1 DEF Brings
      <4>3. QED
        BY <4>2 DEF Coming
    <3>3. QED
      BY <3>1, <3>2
  <2>4. QED
    BY <2>1, <2>2, <2>3 DEF ServeInv, Coming
<1>4. \A u \in tasks' : u.stage = "confirm" => \A f, g \in DOMAIN u.now.wants : f = g
  BY <1>0, <1>1, <1>2 DEF ServeInv
<1> QED
  BY <1>3, <1>4 DEF ServeInv

(* An answer to a question that is no.                                       *)
LEMMA DenialServes ==
    ASSUME TaskInv, ServeInv, NEW t \in tasks, Denied(t)
    PROVE  ServeInv'
<1>0. TaskOK(t) /\ t.now \in t.items
  BY DEF TaskInv, TaskOK, Denied
<1>1. /\ UNCHANGED <<vms, exposed, held, cache, mode, changed, suspect>>
      /\ excused' = excused \cup {t.now.port} /\ skipped \subseteq skipped'
      /\ \A s \in tasks : s # t => s \in tasks'
  BY DEF Denied, Drop, NextItem
<1>2. \A j \in t.items : j # t.now => j.port \in skipped'
            \/ \E s \in tasks' : j \in s.items /\ s.stage = "ready"
  <2>1. CASE Drop(t, t.now)
    BY <2>1 DEF Drop
  <2>2. CASE NextItem(t, t.now)
    <3> DEFINE s == [t EXCEPT !.items = t.items \ {t.now}, !.stage = "ready", !.now = None,
                              !.known = FALSE]
    <3> SUFFICES ASSUME NEW j \in t.items, j # t.now
                 PROVE  \E u \in tasks' : j \in u.items /\ u.stage = "ready"
      OBVIOUS
    <3>1. s \in tasks'
      BY <2>2 DEF NextItem
    <3>2. s.items = t.items \ {t.now} /\ s.stage = "ready"
      BY <1>0, SMT DEF TaskOK
    <3>3. QED
      BY <3>1, <3>2
  <2>3. QED
    BY <2>1, <2>2 DEF Denied
<1>3. \A s \in tasks' : s \in tasks \/ s.stage = "ready"
  <2>1. [t EXCEPT !.items = t.items \ {t.now}, !.stage = "ready", !.now = None,
                  !.known = FALSE].stage = "ready"
    BY <1>0, SMT DEF TaskOK
  <2>2. QED
    BY <2>1 DEF Denied, Drop, NextItem
<1>4. ASSUME NEW f \in Fronts, NEW p \in Ports, Waiting(f, p)' PROVE Coming(f, p)'
  <2>1. Waiting(f, p) /\ p # t.now.port
    BY <1>1, <1>4, WaitedBefore DEF vms, Holders, Running, Waiting
  <2>2. CASE cache[p] = Absent /\ (changed \/ p \in suspect)
    BY <1>1, <2>2 DEF Coming
  <2>3. ASSUME NEW u \in tasks, NEW j \in u.items, Brings(u, j, f, p) PROVE Coming(f, p)'
    <3>1. CASE u # t
      BY <1>1, <2>3, <3>1 DEF Coming, Brings
    <3>2. CASE u = t
      <4>1. PICK s \in tasks' : j \in s.items /\ s.stage = "ready"
        BY <1>2, <1>4, <2>1, <2>3, <3>2 DEF Brings, Waiting
      <4>2. Brings(s, j, f, p)'
        BY <1>1, <2>3, <4>1 DEF Brings
      <4>3. QED
        BY <4>1, <4>2 DEF Coming
    <3>3. QED
      BY <3>1, <3>2
  <2>4. QED
    BY <2>1, <2>2, <2>3 DEF ServeInv, Coming
<1> QED
  BY <1>3, <1>4 DEF ServeInv

(* The handler of an event of QubesDB.  Whoever waits for a device it finds  *)
(* added gets an item in its task.                                           *)
LEMMA ChangeServes ==
    ASSUME TypeOK, DiskInv, ServeInv, OnQdbChange
    PROVE  ServeInv'
<1> DEFINE Z == Zombies(Detached)
<1>1. /\ held' = Without(Z) /\ UNCHANGED <<vms, exposed, mode>>
      /\ tasks' = tasks \cup (IF ToAttach = {} THEN {} ELSE {Task(FreshId, ToAttach)})
      /\ excused' = {p \in excused \ Added : Exposes(p)}
      /\ skipped' = {p \in skipped \ Added : Exposes(p)}
  BY DEF OnQdbChange
<1>2. Detached \in SUBSET Ports
  BY DEF Detached
<1>3. Gone(Z, Detached)
  BY <1>2, ZombiesAreDisks
<1> HIDE DEF Z
<1>4. Task(FreshId, ToAttach).items = ToAttach /\ Task(FreshId, ToAttach).stage = "ready"
  BY DEF Task
<1>5. ASSUME NEW f \in Fronts, NEW p \in Ports, Waiting(f, p)' PROVE Coming(f, p)'
  <2>1. Exposes(p)
    BY <1>1, <1>5 DEF Waiting, Exposes, vms
  <2>2. \A g \in Fronts : held'[g][p] = held[g][p]
    <3>1. \A g \in Fronts : <<g, p>> \notin Z
      BY <1>3, <2>1, LiveDiskStays
    <3>2. QED
      BY <1>1, <3>1, SMT DEF Without, TypeOK
  <2>3. Holders(p) = {}
    BY <1>1, <1>5, <2>2 DEF Waiting, Holders, Running, vms
  <2>4. Needs(f, p)
    BY <1>1, <1>5, SameNeeds DEF Waiting, vms
  <2>5. CASE p \in Added
    <3> DEFINE F == {g \in Fronts : Running(g)}
    <3>1. f \in F
      BY <2>4, NeededIsWished
    <3> HIDE DEF F
    <3>a. PICK i : i = Item(p, F, Modes)
      OBVIOUS
    <3>b. PICK t : t = Task(FreshId, ToAttach)
      OBVIOUS
    <3>2. i.port = p /\ i.dev = exposed[p] /\ f \in DOMAIN i.wants
      <4>1. Wish(f, p, Modes) # {}
        BY <2>4, NeededIsWished
      <4>2. QED
        BY <3>1, <3>a, <4>1, ItemIs
    <3>3. Current(p) = Free
      BY <2>1, <2>3 DEF Current
    <3>4. i \in ToAttach
      BY <2>5, <3>2, <3>3, <3>a, Zenon DEF ToAttach, F
    <3>5. t \in tasks' /\ i \in t.items
      BY <1>1, <1>4, <3>4, <3>b
    <3>6. Brings(t, i, f, p)'
      BY <1>1, <1>4, <3>2, <3>b DEF Brings
    <3>7. QED
      BY <3>5, <3>6 DEF Coming
  <2>6. CASE p \notin Added
    <3>1. Current(p) # Absent /\ cache[p] # Absent
      <4>1. Current(p) = Free
        BY <2>1, <2>3 DEF Current
      <4>2. QED
        BY <2>6, <4>1, DevicesAssumption DEF Added, DevicesAssumption
    <3>2. Waiting(f, p)
      BY <1>1, <1>5, <2>1, <2>3, <2>4, <2>6 DEF Waiting
    <3>3. PICK t \in tasks : \E i \in t.items : Brings(t, i, f, p)
      BY <3>1, <3>2 DEF ServeInv, Coming
    <3>4. t \in tasks' /\ \E i \in t.items : Brings(t, i, f, p)'
      BY <1>1, <3>3 DEF Brings
    <3>5. QED
      BY <3>4 DEF Coming
  <2>7. QED
    BY <2>5, <2>6
<1>6. \A s \in tasks' : s \in tasks \/ s.stage = "ready"
  BY <1>1, <1>4
<1> QED
  BY <1>5, <1>6 DEF ServeInv

(* Every step serves who waits, or says which port it does not.              *)
LEMMA ServeStep ==
    TypeOK /\ TaskInv /\ DiskInv /\ ServeInv /\ [Next]_vars => ServeInv'
<1> SUFFICES ASSUME TypeOK, TaskInv, DiskInv, ServeInv, [Next]_vars
             PROVE  ServeInv'
  OBVIOUS
<1> USE DevicesAssumption DEF DevicesAssumption
\* For a step that leaves tasks alone, what is to prove.
<1>a. ASSUME tasks' = tasks,
             \A f \in Fronts, p \in Ports : Waiting(f, p)' => Coming(f, p)'
      PROVE  ServeInv'
  BY <1>a DEF ServeInv
<1>1. CASE OnQdbChange
  BY <1>1, ChangeServes
<1>2. CASE OnQdbChangeFails
  <2> DEFINE Z == Zombies(Detached)
  <2> DEFINE B == {p \in suspect : ~Exposes(p)}
  <2>1. Detached \in SUBSET Ports /\ B \in SUBSET Ports /\ Z \in SUBSET (Fronts \X Ports)
    BY ZombiesType DEF Detached, TypeOK
  <2>2. /\ DetachFails(Z, B) /\ UNCHANGED <<vms, exposed, mode, tasks, excused, skipped>>
        /\ suspect' = suspect \cup {p \in Ports : cache'[p] # Current(p)}
    BY <1>2 DEF OnQdbChangeFails
  <2>3. Untouched(Z) /\ Gone(Z, Detached)
    BY <2>1, <2>2, DetachFailsEffect, ZombiesAreDisks
  <2> HIDE DEF Z
  <2> SUFFICES ASSUME NEW f \in Fronts, NEW p \in Ports, Waiting(f, p)' PROVE Coming(f, p)'
    BY <1>a, <2>2
  <2>4. Exposes(p)
    BY <2>2 DEF Waiting, Exposes, vms
  <2>5. cache'[p] = cache[p] /\ \A g \in Fronts : held'[g][p] = held[g][p]
    BY <2>3, <2>4, LiveDiskStays DEF Untouched
  <2>6. Waiting(f, p)
    BY <2>2, <2>5, WaitedBefore DEF vms, Holders, Running
  <2>7. CASE cache[p] = Absent
    <3>1. Current(p) = Free
      BY <2>6 DEF Current, Waiting
    <3>2. p \in suspect'
      BY <2>2, <2>5, <2>7, <3>1
    <3>3. QED
      BY <2>5, <2>7, <3>2 DEF Coming
  <2>8. CASE cache[p] # Absent
    BY <2>2, <2>6, <2>8 DEF ServeInv, Coming, Brings
  <2>9. QED
    BY <2>7, <2>8
<1>3. ASSUME NEW t \in tasks, RunTask(t) PROVE ServeInv'
  <2> PICK i \in t.items :
        \/ (\E f, g \in DOMAIN i.wants : f # g) /\ Waits(t, i, "choose")
        \/ \E f \in DOMAIN i.wants :
              /\ DOMAIN i.wants = {f}
              /\ IF i.wants[f] = "ask" THEN Waits(t, i, "confirm")
                 ELSE attach_and_notify(t, i, f, Known(i))
    BY <1>3, Zenon DEF RunTask
  <2>1. CASE Waits(t, i, "choose")
    BY <2>1, QuestionServes
  <2>2. CASE ~Waits(t, i, "choose")
    <3> PICK f \in DOMAIN i.wants :
              /\ DOMAIN i.wants = {f}
              /\ IF i.wants[f] = "ask" THEN Waits(t, i, "confirm")
                 ELSE attach_and_notify(t, i, f, Known(i))
      BY <2>2, Zenon
    <3>1. CASE i.wants[f] = "ask"
      BY <3>1, QuestionServes
    <3>2. CASE i.wants[f] # "ask"
      <4>1. \A g \in Fronts : Brings(t, i, g, i.port) => g = f /\ (Exposes(i.port) => Known(i))
        BY DEF Brings, Known
      <4>2. attach_and_notify(t, i, f, Known(i))
        BY <3>2
      <4>3. QED
        BY <4>1, <4>2, AttemptServes
    <3>3. QED
      BY <3>1, <3>2
  <2>3. QED
    BY <2>1, <2>2
<1>4. ASSUME NEW t \in tasks, Chosen(t) PROVE ServeInv'
  <2>1. t.stage = "choose" /\ t.now \in t.items
    BY <1>4 DEF Chosen, TaskInv, TaskOK
  <2>2. PICK f \in DOMAIN t.now.wants : attach_and_notify(t, t.now, f, Known(t.now))
    BY <1>4 DEF Chosen
  <2>3. QED
    BY <2>1, <2>2, AttemptServes
<1>5. ASSUME NEW t \in tasks, Confirmed(t) PROVE ServeInv'
  <2>1. t.stage = "confirm" /\ t.now \in t.items
    BY <1>5 DEF Confirmed, TaskInv, TaskOK
  <2>2. PICK f \in DOMAIN t.now.wants : attach_and_notify(t, t.now, f, t.known)
    BY <1>5 DEF Confirmed
  <2>3. \A g \in Fronts : Brings(t, t.now, g, t.now.port) => g = f /\ t.known
    BY <2>1, <2>2 DEF Brings, ServeInv
  <2>4. QED
    BY <2>1, <2>2, <2>3, AttemptServes
<1>6. ASSUME NEW t \in tasks, Denied(t) PROVE ServeInv'
  BY <1>6, DenialServes
<1>7. ASSUME NEW f \in Fronts, NEW p \in Ports, Attach(f, p) PROVE ServeInv'
  <2>1. /\ UNCHANGED <<vms, exposed, mode, changed, tasks, skipped>> /\ Running(f)
        /\ suspect \subseteq suspect' /\ excused \subseteq excused'
        /\ Attached(f, p) \/ (held' = held /\ p \in excused')
    BY <1>7 DEF Attach, AttachFrame, AttachFails, Refused
  <2>0. \A q \in Ports : q # p => cache'[q] = cache[q]
    BY <1>7 DEF Attach, AttachFails, Attached, TypeOK
  <2>2. \A g \in Fronts, q \in Ports : g \in Holders(q) => g \in Holders(q)'
    BY <2>1 DEF Holders, Running, Attached, vms, TypeOK
  <2>3. f \in Holders(p)' \/ p \in excused'
    BY <2>1 DEF Holders, Running, Attached, vms, TypeOK
  <2> SUFFICES ASSUME NEW g \in Fronts, NEW q \in Ports, Waiting(g, q)' PROVE Coming(g, q)'
    BY <1>a, <2>1
  <2>4. q # p
    BY <2>3 DEF Waiting
  <2>5. Waiting(g, q)
    BY <2>1, <2>2, WaitedBefore DEF vms
  <2>6. QED
    BY <2>0, <2>1, <2>4, <2>5, StillComing DEF ServeInv
<1>8. ASSUME NEW f \in Fronts, NEW p \in Ports, Detach(f, p) PROVE ServeInv'
  <2> DEFINE Z == {<<f, p>>}
  <2>1. /\ UNCHANGED <<vms, exposed, mode, changed, tasks, skipped>>
        /\ suspect \subseteq suspect' /\ excused' = excused \cup {p}
    BY <1>8 DEF Detach
  <2>2. \A q \in Ports : q # p =>
            cache'[q] = cache[q] /\ \A g \in Fronts : held'[g][q] = held[g][q]
    <3>1. CASE DetachFails(Z, {})
      <4>1. Untouched(Z)
        BY <3>1, DetachFailsEffect
      <4>2. QED
        BY <4>1 DEF Untouched
    <3>2. CASE cache' = [cache EXCEPT ![p] = Free] /\ held' = Without(Z)
      BY <3>2, SMT DEF Without, TypeOK
    <3>3. QED
      BY <1>8, <3>1, <3>2 DEF Detach
  <2> SUFFICES ASSUME NEW g \in Fronts, NEW q \in Ports, Waiting(g, q)' PROVE Coming(g, q)'
    BY <1>a, <2>1
  <2>3. q # p
    BY <2>1 DEF Waiting
  <2>4. Waiting(g, q)
    BY <2>1, <2>2, <2>3, WaitedBefore DEF vms, Holders, Running
  <2>5. QED
    BY <2>1, <2>2, <2>3, <2>4, StillComing DEF ServeInv
<1>9. ASSUME NEW f \in Fronts, NEW k \in Keys,
             unassign(f, k) \/ \E m \in Modes : assign(f, k, m) \/ update_assignment(f, k, m)
      PROVE  ServeInv'
  <2>1. PICK m : SetMode(f, k, m)
    BY <1>9 DEF unassign, assign, update_assignment
  <2>2. /\ UNCHANGED <<vms, exposed, held, cache, changed, tasks, suspect, skipped>>
        /\ mode' = [mode EXCEPT ![f][k] = m]
        /\ excused' = excused \cup {p \in Ports : k.port \in {Star, p}}
    BY <2>1 DEF SetMode
  <2> SUFFICES ASSUME NEW g \in Fronts, NEW q \in Ports, Waiting(g, q)' PROVE Coming(g, q)'
    BY <1>a, <2>2
  <2>3. ~Matches(k, q)
    BY <2>2 DEF Waiting, Matches
  <2>4. \A j \in Keys : Matches(j, q) => mode'[g][j] = mode[g][j]
    BY <2>2, <2>3 DEF TypeOK
  <2>5. Waiting(g, q)
    BY <2>2, <2>4, WaitedBefore DEF vms, Holders, Running
  <2>6. QED
    BY <2>2, <2>5, StillComing DEF ServeInv
<1>10. ASSUME NEW f \in Fronts, StartCheck(f) \/ StartFails(f) PROVE ServeInv'
  <2>1. /\ UNCHANGED <<back, exposed, held, cache, mode, changed, tasks, history>>
        /\ front[f] \notin {"created", "on"} /\ front'[f] \notin {"created", "on"}
        /\ \A g \in Fronts : g # f => front'[g] = front[g]
    BY <1>10 DEF StartCheck, StartFails, TypeOK
  <2>2. QED
    BY <2>1, ServeAlone DEF history
<1>11. ASSUME NEW f \in Fronts, Create(f) PROVE ServeInv'
  <2>1. /\ UNCHANGED <<back, exposed, cache, mode, changed, tasks, excused, skipped>>
        /\ front[f] = "checked" /\ front' = [front EXCEPT ![f] = "created"]
        /\ \A q \in Needed(f) : held'[f][q] = exposed[q] /\ exposed[q] # None
        /\ \A g \in Fronts : g # f => held'[g] = held[g]
        /\ suspect \subseteq suspect'
    BY <1>11 DEF Create, TypeOK, Needed, Exposes
  <2>2. front'[f] = "created" /\ \A g \in Fronts : g # f => front'[g] = front[g]
    BY <2>1 DEF TypeOK
  <2> SUFFICES ASSUME NEW g \in Fronts, NEW q \in Ports, Waiting(g, q)' PROVE Coming(g, q)'
    BY <1>a, <2>1
  <2>3. g # f
    <3> SUFFICES ASSUME g = f PROVE FALSE
      OBVIOUS
    <3>1. Required(f, q) /\ Exposes(q)
      BY <2>1, <2>2, SameWish DEF Waiting, Needs, Exposes
    <3>2. held'[f][q] # None /\ Running(f)'
      BY <2>1, <2>2, <3>1 DEF Needed, Running
    <3>3. QED
      BY <3>2 DEF Waiting, Holders
  <2>4. \A h \in Fronts : h \in Holders(q) => h \in Holders(q)'
    BY <2>1, <2>2 DEF Holders, Running
  <2>5. Waiting(g, q)
    BY <2>1, <2>2, <2>3, <2>4, WaitedBefore
  <2>6. QED
    BY <2>1, <2>5, StillComing DEF ServeInv
<1>12. ASSUME NEW f \in Fronts, on_domain_start(f) PROVE ServeInv'
  <2>1. /\ UNCHANGED <<back, exposed, held, cache, mode, changed, suspect, excused, skipped>>
        /\ front[f] = "created" /\ front' = [front EXCEPT ![f] = "on"]
        /\ tasks' = tasks \cup {Task(f, {Item(p, {f}, {"auto", "ask"})}) : p \in Wanted(f)}
    BY <1>12 DEF on_domain_start, history
  <2>2. front'[f] = "on" /\ \A g \in Fronts : g # f => front'[g] = front[g]
    BY <2>1 DEF TypeOK
  <2>3. ASSUME NEW g \in Fronts, NEW q \in Ports, Waiting(g, q)' PROVE Coming(g, q)'
    <3>1. Exposes(q) /\ Holders(q) = {} /\ q \notin excused \cup skipped
      BY <2>1, <2>2, <2>3 DEF Waiting, Exposes, Holders, Running
    <3>2. CASE Needs(g, q)
      <4>1. Waiting(g, q)
        BY <3>1, <3>2 DEF Waiting
      <4>2. QED
        BY <2>1, <4>1, StillComing DEF ServeInv
    <3>3. CASE ~Needs(g, q)
      <4>1. g = f
        BY <2>1, <2>2, <2>3, <3>3, SameNeeds DEF Waiting
      <4>2. ~(Wish(f, q, Modes) \subseteq {"ask"}) /\ ~Required(f, q)
        BY <2>1, <2>2, <2>3, <3>3, <4>1, SameWish DEF Waiting, Needs
      <4>3. Wish(f, q, {"auto", "ask"}) # {}
        BY <4>2, WishOrRequired
      <4>4. q \in Wanted(f)
        BY <3>1, <4>3 DEF Wanted
      <4>5. PICK i : i = Item(q, {f}, {"auto", "ask"})
        OBVIOUS
      <4>6. PICK t : t = Task(f, {i})
        OBVIOUS
      <4>7. i.port = q /\ i.dev = exposed[q] /\ f \in DOMAIN i.wants
        <5>1. PICK F : F = {f}
          OBVIOUS
        <5>2. PICK M : M = {"auto", "ask"}
          OBVIOUS
        <5>3. i = Item(q, F, M) /\ f \in F /\ Wish(f, q, M) # {}
          BY <4>3, <4>5, <5>1, <5>2
        <5>4. QED
          BY <5>3, ItemIs
      <4>8. t \in tasks' /\ i \in t.items /\ t.stage = "ready"
        BY <2>1, <4>4, <4>5, <4>6 DEF Task
      <4>9. Brings(t, i, f, q)'
        BY <2>1, <4>7, <4>8 DEF Brings
      <4>10. QED
        BY <4>1, <4>8, <4>9 DEF Coming
    <3>4. QED
      BY <3>2, <3>3
  <2>4. \A s \in tasks' : s \in tasks \/ s.stage = "ready"
    BY <2>1 DEF Task
  <2>5. QED
    BY <2>3, <2>4 DEF ServeInv
<1>13. ASSUME NEW f \in Fronts, Stop(f) PROVE ServeInv'
  <2>1. /\ UNCHANGED <<back, exposed, cache, mode, changed, tasks, suspect, skipped>>
        /\ front' = [front EXCEPT ![f] = "ended"]
        /\ held' = [held EXCEPT ![f] = [p \in Ports |-> None]]
        /\ excused' = excused \cup {p \in Ports : held[f][p] # None}
    BY <1>13 DEF Stop
  <2>2. /\ front'[f] = "ended"
        /\ \A g \in Fronts : g # f => front'[g] = front[g] /\ held'[g] = held[g]
    BY <2>1 DEF TypeOK
  <2> SUFFICES ASSUME NEW g \in Fronts, NEW q \in Ports, Waiting(g, q)' PROVE Coming(g, q)'
    BY <1>a, <2>1
  <2>3. g # f /\ held[f][q] = None
    BY <2>1, <2>2 DEF Waiting, Needs
  <2>4. \A h \in Fronts : h \in Holders(q) => h \in Holders(q)'
    BY <2>2, <2>3 DEF Holders, Running
  <2>5. Waiting(g, q)
    BY <2>1, <2>2, <2>3, <2>4, WaitedBefore
  <2>6. QED
    BY <2>1, <2>5, StillComing DEF ServeInv
<1>14. ASSUME NEW f \in Fronts, detach_attached_devices_on_shutdown(f) PROVE ServeInv'
  <2>1. /\ UNCHANGED <<back, exposed, held, mode, changed, tasks, history>>
        /\ front[f] = "ended" /\ front' = [front EXCEPT ![f] = "off"]
        /\ cache' = Released(f)
    BY <1>14 DEF detach_attached_devices_on_shutdown
  <2>2. front'[f] = "off" /\ \A g \in Fronts : g # f => front'[g] = front[g]
    BY <2>1 DEF TypeOK
  <2> SUFFICES ASSUME NEW g \in Fronts, NEW q \in Ports, Waiting(g, q)' PROVE Coming(g, q)'
    BY <1>a, <2>1
  <2>3. g # f
    BY <2>2 DEF Waiting, Needs
  <2>4. \A h \in Fronts : h \in Holders(q) => h \in Holders(q)'
    BY <2>1, <2>2 DEF Holders, Running
  <2>5. Waiting(g, q)
    BY <2>1, <2>2, <2>3, <2>4, WaitedBefore DEF history
  <2>6. cache[q] = Absent => cache'[q] = Absent
    BY <2>1 DEF Released
  <2>7. QED
    BY <2>1, <2>5, <2>6, StillComing DEF ServeInv, history
<1>15. ASSUME NEW p \in Ports, NEW d \in Devs, Plug(p, d) PROVE ServeInv'
  <2>1. /\ UNCHANGED <<vms, held, cache, mode, tasks, suspect, skipped>>
        /\ changed' = TRUE /\ exposed' = [exposed EXCEPT ![p] = d]
        /\ excused' = IF cache[p] = Absent THEN excused ELSE excused \cup {p}
    BY <1>15 DEF Plug
  <2> SUFFICES ASSUME NEW g \in Fronts, NEW q \in Ports, Waiting(g, q)' PROVE Coming(g, q)'
    BY <1>a, <2>1
  <2>2. CASE q = p
    BY <2>1, <2>2 DEF Waiting, Coming
  <2>3. CASE q # p
    <3>1. exposed'[q] = exposed[q]
      BY <2>1, <2>3 DEF TypeOK
    <3>2. Waiting(g, q)
      BY <2>1, <3>1, WaitedBefore DEF vms, Holders, Running
    <3>3. QED
      BY <2>1, <3>1, <3>2, StillComing DEF ServeInv
  <2>4. QED
    BY <2>2, <2>3
<1>16. ASSUME NEW p \in Ports, Unplug(p) PROVE ServeInv'
  <2>1. /\ UNCHANGED <<vms, held, cache, mode, tasks, history>>
        /\ changed' = TRUE /\ exposed' = [exposed EXCEPT ![p] = None]
    BY <1>16 DEF Unplug
  <2> SUFFICES ASSUME NEW g \in Fronts, NEW q \in Ports, Waiting(g, q)' PROVE Coming(g, q)'
    BY <1>a, <2>1
  <2>2. exposed'[q] = exposed[q]
    BY <2>1 DEF Waiting, Exposes, TypeOK
  <2>3. Waiting(g, q)
    BY <2>1, <2>2, WaitedBefore DEF vms, history, Holders, Running
  <2>4. QED
    BY <2>1, <2>2, <2>3, StillComing DEF ServeInv, history
<1>17. CASE StopBackend \/ on_domain_shutdown
  <2>1. back' # "on" /\ tasks' = tasks
    BY <1>17 DEF StopBackend, on_domain_shutdown
  <2>2. QED
    BY <1>a, <2>1 DEF Waiting, Exposes
<1>18. CASE StartBackend
  <2>1. tasks' = tasks /\ \A p \in Ports : exposed'[p] = None
    BY <1>18 DEF StartBackend, DiskInv
  <2>2. QED
    BY <1>a, <2>1 DEF Waiting, Exposes
<1>19. CASE Restart
  <2>1. /\ tasks' = {} /\ exposed' = exposed /\ excused' = {p \in Ports : Exposes(p)}
        /\ back' = IF back = "ended" THEN "off" ELSE back
    BY <1>19 DEF Restart
  <2>2. QED
    BY <2>1 DEF ServeInv, Waiting, Exposes
<1>20. CASE UNCHANGED vars
  BY <1>20, ServeAlone DEF vars, vms, history
<1> QED
  BY <1>1, <1>2, <1>3, <1>4, <1>5, <1>6, <1>7, <1>8, <1>9, <1>10, <1>11, <1>12, <1>13,
     <1>14, <1>15, <1>16, <1>17, <1>18, <1>19, <1>20
    DEF Next

(* The second inductive invariant, on top of the first.                      *)
THEOREM ServeInvariant == Spec => []ServeInv
<1>1. Init => ServeInv
  BY DEF Init, ServeInv, Waiting, Exposes
<1>2. DevicesInv /\ ServeInv /\ [Next]_vars => ServeInv'
  BY ServeStep DEF DevicesInv
<1> QED
  BY <1>1, <1>2, DevicesInvariant, PTL DEF Spec

(* With no event to handle and no task left, every device that a started     *)
(* qube was to get without a question is held by somebody, however the       *)
(* events, the questions and the starts came; but for the ports named.       *)
THEOREM DevicesComeToQubes == Spec => []AutoAttached
<1>1. ServeInv => AutoAttached
  <2> SUFFICES ASSUME ServeInv, Handled, tasks = {}, NEW p \in Ports, Unserved(p),
                      p \notin excused \cup skipped
               PROVE  p \in suspect
    BY DEF AutoAttached
  <2>1. PICK f \in Fronts : Waiting(f, p)
    BY DEF Unserved, Waiting, Needs
  <2>2. Coming(f, p)
    BY <2>1 DEF ServeInv
  <2>3. QED
    BY <2>2 DEF Coming, Handled
<1> QED
  BY <1>1, ServeInvariant, PTL

----------------------------------------------------------------------------
(* The texts of assignments (DeviceAssignments): escaping and its inverse. *)

(* One step of either: what was made of the text before i, and text[i].     *)
Replaced(way, text, i, made) ==
  IF way = "escape"
  THEN IF text[i] = "quote" THEN Append(Append(made, "backslash"), "quote")
       ELSE Append(made, text[i])
  ELSE IF i > 1 /\ text[i - 1] = "backslash" /\ text[i] = "quote"
       THEN Append(SubSeq(made, 1, Len(made) - 1), "quote")
       ELSE Append(made, text[i])

(* The recursive functions of Escaped() and Unescaped().                    *)
Replaces(way, text, f) ==
  f = [i \in 0..Len(text) |-> IF i = 0 THEN <<>> ELSE Replaced(way, text, i, f[i - 1])]

(* Two such functions agree where their texts do.                           *)
LEMMA ReplacesSame ==
  ASSUME NEW X, NEW s \in Seq(X), NEW t \in Seq(X), NEW way, NEW f, NEW g,
         Replaces(way, s, f), Replaces(way, t, g), Len(s) <= Len(t),
         \A i \in 1..Len(s) : s[i] = t[i]
  PROVE  f[Len(s)] = g[Len(s)]
<1> DEFINE B == {i \in 0..Len(s) : f[i] # g[i]}
<1>1. SUFFICES B = {}
  BY SMT
<1>2. SUFFICES ASSUME B # {}
               PROVE  FALSE
  OBVIOUS
<1>3. PICK i \in B : \A j \in B : i <= j
  <2>1. B \in SUBSET Nat
    BY SMT
  <2> QED
    BY <1>2, <2>1, LeastNumber
<1>4. i \in 0..Len(s) /\ i \in 0..Len(t) /\ f[i] # g[i]
  BY <1>3, SMT
<1>5. f[i] = IF i = 0 THEN <<>> ELSE Replaced(way, s, i, f[i - 1])
  BY <1>4 DEF Replaces
<1>6. g[i] = IF i = 0 THEN <<>> ELSE Replaced(way, t, i, g[i - 1])
  BY <1>4 DEF Replaces
<1>7. i # 0
  BY <1>4, <1>5, <1>6
<1>8. s[i] = t[i] /\ (i > 1 => s[i - 1] = t[i - 1]) /\ f[i - 1] = g[i - 1]
  BY <1>3, <1>4, <1>7, SMT
<1>9. Replaced(way, s, i, f[i - 1]) = Replaced(way, t, i, g[i - 1])
  <2> DEFINE u == f[i - 1]
  <2>1. u = g[i - 1]
    BY <1>8
  <2> HIDE DEF u
  <2>2. Replaced(way, s, i, u) = Replaced(way, t, i, u)
    BY <1>8, Zenon DEF Replaced
  <2> QED
    BY <2>1, <2>2 DEF u
<1> QED
  BY <1>4, <1>5, <1>6, <1>7, <1>9

(* It goes on when the text gets one more character.                        *)
LEMMA ReplacesAppend ==
  ASSUME NEW X, NEW s \in Seq(X), NEW x \in X, NEW way, NEW f, Replaces(way, s, f)
  PROVE  \E g : /\ Replaces(way, Append(s, x), g)
                /\ g[Len(s) + 1] = Replaced(way, Append(s, x), Len(s) + 1, f[Len(s)])
<1>1. PICK t : t = Append(s, x)
  OBVIOUS
<1>2. /\ Len(t) = Len(s) + 1 /\ t[Len(s) + 1] = x /\ Len(s) \in Nat /\ t \in Seq(X)
      /\ \A i \in 1..Len(s) : t[i] = s[i]
  BY <1>1, AppendProperties
<1>3. PICK h : h = Replaced(way, t, Len(s) + 1, f[Len(s)])
  OBVIOUS
<1>4. PICK g : g = [i \in 0..(Len(s) + 1) |-> IF i <= Len(s) THEN f[i] ELSE h]
  OBVIOUS
<1> DEFINE G(i) == IF i = 0 THEN <<>> ELSE Replaced(way, t, i, g[i - 1])
<1>5. ASSUME NEW i \in 0..(Len(s) + 1)
      PROVE  g[i] = G(i)
  <2>1. CASE i <= Len(s)
    <3>1. g[i] = f[i] /\ i \in 0..Len(s) /\ (i # 0 => g[i - 1] = f[i - 1] /\ t[i] = s[i])
      BY <1>2, <1>4, <2>1, SMT
    <3>2. f[i] = IF i = 0 THEN <<>> ELSE Replaced(way, s, i, f[i - 1])
      BY <3>1 DEF Replaces
    <3>3. CASE i # 0
      <4>1. i > 1 => t[i - 1] = s[i - 1]
        BY <1>2, <3>1, SMT
      <4>2. PICK u : u = f[i - 1]
        OBVIOUS
      <4>3. Replaced(way, s, i, u) = Replaced(way, t, i, u)
        BY <3>1, <3>3, <4>1, Zenon DEF Replaced
      <4> QED
        BY <3>1, <3>2, <3>3, <4>2, <4>3
    <3> QED
      BY <3>1, <3>2, <3>3
  <2>2. CASE ~ (i <= Len(s))
    <3>1. i = Len(s) + 1 /\ i # 0 /\ i - 1 = Len(s)
      BY <1>2, <2>2, SMT
    <3>2. g[i] = h /\ g[i - 1] = f[Len(s)]
      BY <1>2, <1>4, <2>2, <3>1, SMT
    <3> QED
      BY <1>3, <3>1, <3>2
  <2> QED
    BY <2>1, <2>2
<1>6. g = [i \in 0..(Len(s) + 1) |-> g[i]]
  BY <1>4
<1>7. g = [i \in 0..Len(t) |-> G(i)]
  BY <1>2, <1>5, <1>6
<1>8. Replaces(way, t, g)
  BY <1>7 DEF Replaces
<1>9. g[Len(s) + 1] = h
  BY <1>2, <1>4, SMT
<1> QED
  BY <1>1, <1>3, <1>8, <1>9

(* There is one for every text: otherwise there is a shortest without.      *)
LEMMA ReplacesExist ==
  ASSUME NEW X, NEW s \in Seq(X), NEW way
  PROVE  \E f : Replaces(way, s, f)
<1> DEFINE B == {n \in Nat : \E t \in Seq(X) : Len(t) = n /\ ~ \E f : Replaces(way, t, f)}
<1>1. SUFFICES ASSUME B # {}
               PROVE  FALSE
  BY SMT
<1>2. PICK n \in B : \A k \in B : n <= k
  BY <1>1, LeastNumber
<1>3. PICK t \in Seq(X) : Len(t) = n /\ ~ \E f : Replaces(way, t, f)
  BY <1>2
<1>4. CASE t = <<>>
  <2>1. Replaces(way, t, [i \in 0..Len(t) |-> <<>>])
    BY <1>4, SMT DEF Replaces
  <2> QED
    BY <1>3, <2>1
<1>5. CASE t # <<>>
  <2>1. PICK u \in Seq(X), x \in X : t = Append(u, x)
    BY <1>5, SequenceEmptyOrAppend
  <2>2. Len(u) \in Nat /\ Len(u) < n
    BY <1>3, <2>1, AppendProperties, SMT
  <2>3. PICK f : Replaces(way, u, f)
    BY <1>2, <2>2, SMT
  <2>4. \E g : Replaces(way, t, g)
    BY <2>1, <2>3, ReplacesAppend
  <2> QED
    BY <1>3, <2>4
<1> QED
  BY <1>4, <1>5

(* What either returns, by its way.                                         *)
Translated(way, text) == IF way = "escape" THEN Escaped(text) ELSE Unescaped(text)

(* It is the last value of the recursive function.                          *)
LEMMA TranslatedIs ==
  ASSUME NEW X, NEW s \in Seq(X), NEW way \in {"escape", "unescape"}, NEW f, Replaces(way, s, f)
  PROVE  Translated(way, s) = f[Len(s)]
<1> DEFINE g == CHOOSE g : Replaces(way, s, g)
<1>1. Replaces(way, s, g)
  OBVIOUS
<1>2. Translated(way, s) = g[Len(s)]
  <2>1. CASE way = "escape"
    <3>1. g = CHOOSE h : h = [i \in 0..Len(s) |-> IF i = 0 THEN <<>>
                 ELSE IF s[i] = "quote" THEN Append(Append(h[i - 1], "backslash"), "quote")
                 ELSE Append(h[i - 1], s[i])]
      BY <2>1 DEF Replaces, Replaced
    <3> HIDE DEF g
    <3>2. Escaped(s) = g[Len(s)]
      BY <3>1 DEF Escaped
    <3> QED
      BY <2>1, <3>2 DEF Translated
  <2>2. CASE way = "unescape"
    <3>0. way # "escape"
      BY <2>2
    <3>1. g = CHOOSE h : h = [i \in 0..Len(s) |-> IF i = 0 THEN <<>>
                 ELSE IF i > 1 /\ s[i - 1] = "backslash" /\ s[i] = "quote"
                 THEN Append(SubSeq(h[i - 1], 1, Len(h[i - 1]) - 1), "quote")
                 ELSE Append(h[i - 1], s[i])]
      BY <2>2 DEF Replaces, Replaced
    <3> HIDE DEF g
    <3>2. Unescaped(s) = g[Len(s)]
      BY <3>1 DEF Unescaped
    <3> QED
      BY <3>0, <3>2 DEF Translated
  <2> QED
    BY <2>1, <2>2
<1>3. f[Len(s)] = g[Len(s)]
  BY <1>1, ReplacesSame, SMT
<1> QED
  BY <1>2, <1>3

(* One more character.                                                      *)
LEMMA TranslatedAppend ==
  ASSUME NEW X, NEW s \in Seq(X), NEW x \in X, NEW way \in {"escape", "unescape"}
  PROVE  Translated(way, Append(s, x)) =
           Replaced(way, Append(s, x), Len(s) + 1, Translated(way, s))
<1>1. PICK f : Replaces(way, s, f)
  BY ReplacesExist
<1>2. PICK g : /\ Replaces(way, Append(s, x), g)
               /\ g[Len(s) + 1] = Replaced(way, Append(s, x), Len(s) + 1, f[Len(s)])
  BY <1>1, ReplacesAppend
<1>3. Append(s, x) \in Seq(X) /\ Len(Append(s, x)) = Len(s) + 1
  BY AppendProperties
<1> QED
  BY <1>1, <1>2, <1>3, TranslatedIs

(* Escaped(): nothing, and one more character.                              *)
LEMMA EscapedMore ==
  /\ Escaped(<<>>) = <<>>
  /\ \A X : \A s \in Seq(X), x \in X :
       Escaped(Append(s, x)) =
         IF x = "quote" THEN Append(Append(Escaped(s), "backslash"), "quote")
         ELSE Append(Escaped(s), x)
<1>1. ASSUME NEW X, NEW s \in Seq(X), NEW x \in X
      PROVE  Escaped(Append(s, x)) =
         IF x = "quote" THEN Append(Append(Escaped(s), "backslash"), "quote")
         ELSE Append(Escaped(s), x)
  <2>1. Append(s, x)[Len(s) + 1] = x
    BY AppendProperties
  <2>2. Translated("escape", Append(s, x)) =
           Replaced("escape", Append(s, x), Len(s) + 1, Translated("escape", s))
    BY TranslatedAppend
  <2> QED
    BY <2>1, <2>2 DEF Translated, Replaced
<1>2. Escaped(<<>>) = <<>>
  <2>1. <<>> \in Seq({}) /\ Len(<<>>) = 0
    BY SMT
  <2>2. PICK f : Replaces("escape", <<>>, f)
    BY <2>1, ReplacesExist
  <2>3. f[0] = <<>>
    BY <2>1, <2>2 DEF Replaces
  <2> QED
    BY <2>1, <2>2, <2>3, TranslatedIs DEF Translated
<1> QED
  BY <1>1, <1>2

(* Unescaped(): nothing, and one more character.                            *)
LEMMA UnescapedMore ==
  /\ Unescaped(<<>>) = <<>>
  /\ \A X : \A s \in Seq(X), x \in X :
       Unescaped(Append(s, x)) =
         IF s # <<>> /\ s[Len(s)] = "backslash" /\ x = "quote"
         THEN Append(SubSeq(Unescaped(s), 1, Len(Unescaped(s)) - 1), "quote")
         ELSE Append(Unescaped(s), x)
<1>1. ASSUME NEW X, NEW s \in Seq(X), NEW x \in X
      PROVE  Unescaped(Append(s, x)) =
         IF s # <<>> /\ s[Len(s)] = "backslash" /\ x = "quote"
         THEN Append(SubSeq(Unescaped(s), 1, Len(Unescaped(s)) - 1), "quote")
         ELSE Append(Unescaped(s), x)
  <2>0. PICK t : t = Append(s, x)
    OBVIOUS
  <2>1. /\ t[Len(s) + 1] = x /\ Len(s) \in Nat /\ \A i \in 1..Len(s) : t[i] = s[i]
    BY <2>0, AppendProperties
  <2>2. Unescaped(t) = Replaced("unescape", t, Len(s) + 1, Unescaped(s))
    BY <2>0, TranslatedAppend DEF Translated
  <2>3. PICK n : n = Len(s) + 1
    OBVIOUS
  <2>4. n - 1 = Len(s) /\ (n > 1 <=> s # <<>>) /\ (n > 1 => t[n - 1] = s[Len(s)])
    <3>1. s # <<>> <=> Len(s) > 0
      BY EmptySeq, SMT
    <3> QED
      BY <2>1, <2>3, <3>1, SMT
  <2> QED
    BY <2>0, <2>1, <2>2, <2>3, <2>4, Zenon DEF Replaced
<1>2. Unescaped(<<>>) = <<>>
  <2>1. <<>> \in Seq({}) /\ Len(<<>>) = 0
    BY SMT
  <2>2. PICK f : Replaces("unescape", <<>>, f)
    BY <2>1, ReplacesExist
  <2>3. f[0] = <<>>
    BY <2>1, <2>2 DEF Replaces
  <2> QED
    BY <2>1, <2>2, <2>3, TranslatedIs DEF Translated
<1> QED
  BY <1>1, <1>2

(* What is known of the characters.                                         *)
LEMMA SomeChars ==
  /\ "quote" \in Chars /\ "backslash" \in Chars /\ "equals" \in Chars /\ "space" \in Chars
  /\ "*" \in Chars /\ "None" \in Chars /\ AssignmentModes \subseteq Chars /\ Named \subseteq Chars
  /\ Separators \subseteq Chars
  BY TextsAssumption DEF Separators

(* An escaped text says what the text says, and has a backslash before each *)
(* of its quotes.                                                           *)
EscapedWell(v) ==
  LET e == Escaped(v) IN
    /\ e \in Seq(Chars) /\ Unescaped(e) = v
    /\ e = <<>> <=> v = <<>>
    /\ v # <<>> => e[Len(e)] = v[Len(v)]
    /\ \A j \in 1..Len(e) : e[j] = "quote" => j > 1 /\ e[j - 1] = "backslash"

(* One more character keeps a text well escaped.                            *)
LEMMA EscapedStep ==
  ASSUME NEW v \in Seq(Chars), NEW x \in Chars, EscapedWell(v)
  PROVE  EscapedWell(Append(v, x))
<1>1. PICK e : e = Escaped(v)
  OBVIOUS
<1>2. /\ e \in Seq(Chars) /\ Unescaped(e) = v
      /\ \A j \in 1..Len(e) : e[j] = "quote" => j > 1 /\ e[j - 1] = "backslash"
  BY <1>1 DEF EscapedWell
<1>3. PICK w : w = Append(v, x)
  OBVIOUS
<1>4. w \in Seq(Chars) /\ w # <<>> /\ Len(w) = Len(v) + 1 /\ w[Len(w)] = x /\ Len(v) \in Nat
  BY <1>3, AppendProperties, LenProperties
<1>5. Len(e) \in Nat
  BY <1>2, LenProperties
<1>6. CASE x # "quote"
  <2>1. PICK g : g = Append(e, x)
    OBVIOUS
  <2>2. Escaped(w) = g
    BY <1>1, <1>3, <1>6, <2>1, EscapedMore
  <2>3. /\ g \in Seq(Chars) /\ g # <<>> /\ Len(g) = Len(e) + 1 /\ g[Len(g)] = x
        /\ \A i \in 1..Len(e) : g[i] = e[i]
    BY <1>2, <2>1, AppendProperties
  <2>4. Unescaped(g) = w
    BY <1>2, <1>3, <1>6, <2>1, UnescapedMore
  <2>5. ASSUME NEW j \in 1..Len(g), g[j] = "quote"
        PROVE  j > 1 /\ g[j - 1] = "backslash"
    <3>1. j \in 1..Len(e)
      BY <1>5, <1>6, <2>3, <2>5, SMT
    <3>2. e[j] = "quote"
      BY <2>3, <2>5, <3>1
    <3>3. j > 1 /\ e[j - 1] = "backslash"
      BY <1>2, <3>1, <3>2
    <3>4. j - 1 \in 1..Len(e)
      BY <1>5, <3>1, <3>3, SMT
    <3> QED
      BY <2>3, <3>3, <3>4
  <2> QED
    BY <1>3, <1>4, <2>2, <2>3, <2>4, <2>5 DEF EscapedWell
<1>7. CASE x = "quote"
  <2>1. PICK f : f = Append(e, "backslash")
    OBVIOUS
  <2>2. PICK g : g = Append(f, "quote")
    OBVIOUS
  <2>3. Escaped(w) = g
    BY <1>1, <1>3, <1>7, <2>1, <2>2, EscapedMore
  <2>4. /\ f \in Seq(Chars) /\ f # <<>> /\ Len(f) = Len(e) + 1 /\ f[Len(f)] = "backslash"
        /\ \A i \in 1..Len(e) : f[i] = e[i]
    BY <1>2, <2>1, AppendProperties, SomeChars
  <2>5. /\ g \in Seq(Chars) /\ g # <<>> /\ Len(g) = Len(f) + 1 /\ g[Len(g)] = "quote"
        /\ \A i \in 1..Len(f) : g[i] = f[i]
    BY <2>2, <2>4, AppendProperties, SomeChars
  <2>6. PICK u : u = Append(v, "backslash")
    OBVIOUS
  <2>7. Unescaped(f) = u
    BY <1>2, <2>1, <2>6, UnescapedMore, SomeChars
  <2>8. Unescaped(g) = Append(SubSeq(u, 1, Len(u) - 1), "quote")
    BY <2>2, <2>4, <2>7, UnescapedMore, SomeChars
  <2>9. SubSeq(u, 1, Len(u) - 1) = v
    <3>1. /\ Len(u) = Len(v) + 1 /\ u \in Seq(Chars)
          /\ \A i \in 1..Len(v) : u[i] = v[i]
      BY <2>6, AppendProperties, SomeChars
    <3> QED
      BY <1>4, <3>1, SMT
  <2>10. ASSUME NEW j \in 1..Len(g), g[j] = "quote"
         PROVE  j > 1 /\ g[j - 1] = "backslash"
    <3>1. CASE j \in 1..Len(e)
      <4>1. e[j] = "quote"
        BY <1>5, <2>4, <2>5, <2>10, <3>1, SMT
      <4>2. j > 1 /\ e[j - 1] = "backslash"
        BY <1>2, <3>1, <4>1
      <4>3. j - 1 \in 1..Len(e) /\ j - 1 \in 1..Len(f)
        BY <1>5, <2>4, <3>1, <4>2, SMT
      <4> QED
        BY <2>4, <2>5, <4>2, <4>3
    <3>2. CASE j = Len(e) + 1
      <4>1. j \in 1..Len(f)
        BY <1>5, <2>4, <3>2, SMT
      <4>2. g[j] = "backslash"
        BY <2>4, <2>5, <3>2, <4>1
      <4> QED
        BY <2>10, <4>2
    <3>3. CASE j = Len(e) + 2
      <4>1. j - 1 = Len(f) /\ j > 1 /\ Len(f) \in 1..Len(f)
        BY <1>5, <2>4, <3>3, SMT
      <4>2. g[Len(f)] = "backslash"
        BY <2>4, <2>5, <4>1
      <4> QED
        BY <4>1, <4>2
    <3>4. j \in 1..Len(e) \/ j = Len(e) + 1 \/ j = Len(e) + 2
      BY <1>5, <2>4, <2>5, SMT
    <3> QED
      BY <3>1, <3>2, <3>3, <3>4
  <2>11. Unescaped(g) = w
    BY <1>3, <1>7, <2>8, <2>9
  <2>12. g[Len(g)] = w[Len(w)]
    BY <1>4, <1>7, <2>5
  <2>13. /\ Escaped(w) \in Seq(Chars) /\ Escaped(w) # <<>> /\ Unescaped(Escaped(w)) = w
         /\ Escaped(w)[Len(Escaped(w))] = w[Len(w)]
    BY <2>3, <2>5, <2>11, <2>12
  <2>14. \A j \in 1..Len(Escaped(w)) :
            Escaped(w)[j] = "quote" => j > 1 /\ Escaped(w)[j - 1] = "backslash"
    BY <2>3, <2>10
  <2> QED
    BY <1>3, <1>4, <2>13, <2>14, Zenon DEF EscapedWell
<1> QED
  BY <1>3, <1>6, <1>7

(* Every text is escaped well: unescaping gives it back.                    *)
LEMMA EscapedRight ==
  ASSUME NEW v \in Seq(Chars)
  PROVE  EscapedWell(v)
<1> DEFINE B == {n \in Nat : \E t \in Seq(Chars) : Len(t) = n /\ ~ EscapedWell(t)}
<1>1. SUFFICES ASSUME B # {}
               PROVE  FALSE
  <2>1. Len(v) \in Nat
    BY LenProperties
  <2> QED
    BY <2>1
<1>2. PICK n \in B : \A k \in B : n <= k
  BY <1>1, LeastNumber
<1>3. PICK t \in Seq(Chars) : Len(t) = n /\ ~ EscapedWell(t)
  BY <1>2
<1>4. CASE t = <<>>
  <2>1. Escaped(t) = <<>> /\ Unescaped(<<>>) = <<>> /\ <<>> \in Seq(Chars) /\ Len(<<>>) = 0
    BY <1>4, EscapedMore, UnescapedMore, EmptySeq
  <2>2. \A j \in 1..Len(<<>>) : FALSE
    BY <2>1, SMT
  <2>3. EscapedWell(t)
    BY <1>4, <2>1, <2>2, Zenon DEF EscapedWell
  <2> QED
    BY <1>3, <2>3
<1>5. CASE t # <<>>
  <2>1. PICK u \in Seq(Chars), x \in Chars : t = Append(u, x)
    BY <1>5, SequenceEmptyOrAppend
  <2>2. Len(u) \in Nat /\ Len(u) < n
    BY <1>3, <2>1, AppendProperties, SMT
  <2>3. EscapedWell(u)
    BY <1>2, <2>2, SMT
  <2> QED
    BY <1>3, <2>1, <2>3, EscapedStep
<1> QED
  BY <1>4, <1>5

(* Unescaping ends a text as it was, and leaves something of it.            *)
UnescapedWell(v) ==
  LET u == Unescaped(v) IN
    /\ u \in Seq(Chars)
    /\ u = <<>> <=> v = <<>>
    /\ v # <<>> => u[Len(u)] = v[Len(v)]

(* One more character is unescaped well, too.                               *)
LEMMA UnescapedStep ==
  ASSUME NEW v \in Seq(Chars), NEW x \in Chars, UnescapedWell(v)
  PROVE  UnescapedWell(Append(v, x))
<1>1. PICK u : u = Unescaped(v)
  OBVIOUS
<1>2. u \in Seq(Chars) /\ Len(u) \in Nat
  BY <1>1, LenProperties DEF UnescapedWell
<1>3. PICK w : w = Append(v, x)
  OBVIOUS
<1>4. w # <<>> /\ Len(w) = Len(v) + 1 /\ w[Len(w)] = x
  BY <1>3, AppendProperties
<1>5. PICK r \in Seq(Chars) : Unescaped(w) = Append(r, x)
  <2>1. CASE v # <<>> /\ v[Len(v)] = "backslash" /\ x = "quote"
    <3>1. Unescaped(w) = Append(SubSeq(u, 1, Len(u) - 1), x)
      BY <1>1, <1>3, <2>1, UnescapedMore
    <3>2. SubSeq(u, 1, Len(u) - 1) \in Seq(Chars)
      <4>1. Len(u) - 1 \in Int /\ \A i \in 1..(Len(u) - 1) : i \in 1..Len(u)
        BY <1>2, SMT
      <4> QED
        BY <1>2, <4>1, ElementOfSeq, SubSeqProperties
    <3> QED
      BY <3>1, <3>2
  <2>2. CASE ~ (v # <<>> /\ v[Len(v)] = "backslash" /\ x = "quote")
    BY <1>1, <1>2, <1>3, <2>2, UnescapedMore
  <2> QED
    BY <2>1, <2>2
<1>6. /\ Append(r, x) \in Seq(Chars) /\ Append(r, x) # <<>>
      /\ Append(r, x)[Len(Append(r, x))] = x
  BY <1>5, AppendProperties
<1> QED
  BY <1>3, <1>4, <1>5, <1>6 DEF UnescapedWell

(* Every text is unescaped well.                                            *)
LEMMA UnescapedRight ==
  ASSUME NEW v \in Seq(Chars)
  PROVE  UnescapedWell(v)
<1> DEFINE B == {n \in Nat : \E t \in Seq(Chars) : Len(t) = n /\ ~ UnescapedWell(t)}
<1>1. SUFFICES ASSUME B # {}
               PROVE  FALSE
  <2>1. Len(v) \in Nat
    BY LenProperties
  <2> QED
    BY <2>1
<1>2. PICK n \in B : \A k \in B : n <= k
  BY <1>1, LeastNumber
<1>3. PICK t \in Seq(Chars) : Len(t) = n /\ ~ UnescapedWell(t)
  BY <1>2
<1>4. CASE t = <<>>
  <2>1. UnescapedWell(t)
    BY <1>4, UnescapedMore, EmptySeq DEF UnescapedWell
  <2> QED
    BY <1>3, <2>1
<1>5. CASE t # <<>>
  <2>1. PICK u \in Seq(Chars), x \in Chars : t = Append(u, x)
    BY <1>5, SequenceEmptyOrAppend
  <2>2. Len(u) \in Nat /\ Len(u) < n
    BY <1>3, <2>1, AppendProperties, SMT
  <2>3. UnescapedWell(u)
    BY <1>2, <2>2, SMT
  <2> QED
    BY <1>3, <2>1, <2>3, UnescapedStep
<1> QED
  BY <1>4, <1>5

(* How packing lays out a text t: it is s, then the property k, whose mark  *)
(* is at n, with the escaped value e.                                       *)
Layout(s, t, n, k, e) ==
  /\ s \in Seq(Chars) /\ t \in Seq(Chars) /\ e \in Seq(Chars)
  /\ n \in Nat /\ n > 1 /\ Len(t) = n + 2 + Len(e)
  /\ \/ s = <<>> /\ n = 2
     \/ Len(s) > 0 /\ s[Len(s)] = "quote" /\ n = Len(s) + 3 /\ t[n - 2] = "space"
  /\ \A i \in 1..Len(s) : t[i] = s[i]
  /\ t[n - 1] = k /\ t[n] = "equals" /\ t[n + 1] = "quote" /\ t[Len(t)] = "quote"
  /\ \A j \in 1..Len(e) : t[n + 1 + j] = e[j]

(* The layout of the first property.                                        *)
LEMMA PackedOne ==
  ASSUME NEW k \in Chars, NEW v \in Seq(Chars)
  PROVE  Layout(<<>>, pack_property(k, v), 2, k, Escaped(v))
<1>1. PICK e : e = Escaped(v)
  OBVIOUS
<1>2. e \in Seq(Chars) /\ Len(e) \in Nat
  BY <1>1, EscapedRight, LenProperties DEF EscapedWell
<1>3. PICK h : h = <<k, "equals", "quote">>
  OBVIOUS
<1>4. /\ h \in Seq(Chars) /\ Len(h) = 3 /\ h[1] = k /\ h[2] = "equals" /\ h[3] = "quote"
      /\ <<"quote">> \in Seq(Chars) /\ Len(<<"quote">>) = 1 /\ <<"quote">>[1] = "quote"
  BY <1>3, SomeChars
<1>5. PICK g : g = h \o e
  OBVIOUS
<1>6. /\ g \in Seq(Chars) /\ Len(g) = 3 + Len(e)
      /\ \A i \in 1..(3 + Len(e)) : g[i] = IF i <= 3 THEN h[i] ELSE e[i - 3]
  <2>1. /\ g \in Seq(Chars) /\ Len(g) = Len(h) + Len(e)
        /\ \A i \in 1..(Len(h) + Len(e)) : g[i] = IF i <= Len(h) THEN h[i] ELSE e[i - Len(h)]
    BY <1>2, <1>4, <1>5, ConcatProperties, Zenon
  <2> QED
    BY <1>4, <2>1
<1>7. PICK t : t = g \o <<"quote">>
  OBVIOUS
<1>8. /\ t \in Seq(Chars) /\ Len(t) = 4 + Len(e)
      /\ \A i \in 1..(4 + Len(e)) :
            t[i] = IF i <= 3 + Len(e) THEN g[i] ELSE <<"quote">>[i - (3 + Len(e))]
  <2>1. /\ t \in Seq(Chars) /\ Len(t) = Len(g) + 1
        /\ \A i \in 1..(Len(g) + 1) : t[i] = IF i <= Len(g) THEN g[i] ELSE <<"quote">>[i - Len(g)]
    BY <1>4, <1>6, <1>7, ConcatProperties
  <2>2. Len(g) + 1 = 4 + Len(e)
    BY <1>2, <1>6, SMT
  <2> QED
    BY <1>6, <2>1, <2>2
<1>9. t[1] = k /\ t[2] = "equals" /\ t[3] = "quote"
  <2>1. \A i \in 1..3 : t[i] = h[i]
    BY <1>2, <1>6, <1>8, SMT
  <2> QED
    BY <1>4, <2>1
<1>10. t[Len(t)] = "quote"
  <2>1. Len(t) \in 1..(4 + Len(e)) /\ ~ (Len(t) <= 3 + Len(e)) /\ Len(t) - (3 + Len(e)) = 1
    BY <1>2, <1>8, SMT
  <2> QED
    BY <1>4, <1>8, <2>1
<1>11. ASSUME NEW j \in 1..Len(e)
       PROVE  t[2 + 1 + j] = e[j]
  <2>1. /\ 2 + 1 + j = 3 + j /\ 3 + j \in 1..(4 + Len(e)) /\ 3 + j <= 3 + Len(e)
        /\ 3 + j \in 1..(3 + Len(e)) /\ ~ (3 + j <= 3) /\ (3 + j) - 3 = j
    BY <1>2, SMT
  <2>2. t[3 + j] = g[3 + j] /\ g[3 + j] = e[(3 + j) - 3]
    BY <1>6, <1>8, <2>1
  <2> QED
    BY <2>1, <2>2
<1>12. t = pack_property(k, v)
  BY <1>1, <1>3, <1>5, <1>7 DEF pack_property
<1>13. <<>> \in Seq(Chars) /\ \A i \in 1..Len(<<>>) : FALSE
  BY EmptySeq, SMT
<1>14. Len(t) = 2 + 2 + Len(e) /\ 2 - 1 = 1 /\ 2 + 1 = 3 /\ 2 \in Nat /\ 2 > 1
  BY <1>2, <1>8, SMT
<1> QED
  BY <1>1, <1>2, <1>8, <1>9, <1>10, <1>11, <1>12, <1>13, <1>14 DEF Layout

(* The layout of a text and one more property.                              *)
LEMMA PackedTwo ==
  ASSUME NEW s \in Seq(Chars), Len(s) > 0, s[Len(s)] = "quote",
         NEW k \in Chars, NEW v \in Seq(Chars)
  PROVE  Layout(s, Packed(s, k, v), Len(s) + 3, k, Escaped(v))
<1>1. PICK e : e = Escaped(v)
  OBVIOUS
<1>2. PICK p : p = pack_property(k, v)
  OBVIOUS
<1>3. Layout(<<>>, p, 2, k, e)
  BY <1>1, <1>2, PackedOne
<1>4. /\ p \in Seq(Chars) /\ e \in Seq(Chars) /\ Len(e) \in Nat /\ Len(p) = 4 + Len(e)
      /\ p[1] = k /\ p[2] = "equals" /\ p[3] = "quote" /\ p[Len(p)] = "quote"
      /\ \A j \in 1..Len(e) : p[3 + j] = e[j]
  <2>1. e \in Seq(Chars)
    BY <1>3 DEF Layout
  <2>2. Len(e) \in Nat
    BY <2>1, LenProperties
  <2> QED
    BY <1>3, <2>1, <2>2 DEF Layout
<1>5. PICK n : n = Len(s)
  OBVIOUS
<1>6. n \in Nat /\ n > 0
  BY <1>5, LenProperties
<1>7. PICK g : g = s \o <<"space">>
  OBVIOUS
<1>8. /\ g \in Seq(Chars) /\ Len(g) = n + 1 /\ g[n + 1] = "space"
      /\ \A i \in 1..n : g[i] = s[i]
  <2>1. g = Append(s, "space")
    BY <1>7, AppendIsConcat, SomeChars
  <2> QED
    BY <1>5, <2>1, AppendProperties, SomeChars
<1>9. PICK t : t = g \o p
  OBVIOUS
<1>10. /\ t \in Seq(Chars) /\ Len(t) = n + 1 + (4 + Len(e))
       /\ \A i \in 1..(n + 1 + (4 + Len(e))) : t[i] = IF i <= n + 1 THEN g[i] ELSE p[i - (n + 1)]
  <2>1. /\ t \in Seq(Chars) /\ Len(t) = Len(g) + Len(p)
        /\ \A i \in 1..(Len(g) + Len(p)) : t[i] = IF i <= Len(g) THEN g[i] ELSE p[i - Len(g)]
    <3>1. p \in Seq(Chars) /\ g \in Seq(Chars)
      BY <1>4, <1>8
    <3> QED
      BY <1>9, <3>1, ConcatProperties, Zenon
  <2> QED
    BY <1>4, <1>8, <2>1
<1>11. \A i \in 1..(4 + Len(e)) : t[n + 1 + i] = p[i]
  <2> SUFFICES ASSUME NEW i \in 1..(4 + Len(e))
               PROVE  t[n + 1 + i] = p[i]
    OBVIOUS
  <2>1. /\ n + 1 + i \in 1..(n + 1 + (4 + Len(e))) /\ ~ (n + 1 + i <= n + 1)
        /\ (n + 1 + i) - (n + 1) = i
    BY <1>4, <1>6, SMT
  <2> QED
    BY <1>10, <2>1
<1>12. t[(n + 3) - 2] = "space" /\ \A i \in 1..n : t[i] = s[i]
  <2>1. (n + 3) - 2 = n + 1 /\ n + 1 \in 1..(n + 1 + (4 + Len(e))) /\ n + 1 <= n + 1
    BY <1>4, <1>6, SMT
  <2>2. t[n + 1] = g[n + 1]
    BY <1>10, <2>1
  <2>3. \A i \in 1..n : i \in 1..(n + 1 + (4 + Len(e))) /\ i <= n + 1
    BY <1>4, <1>6, SMT
  <2> QED
    BY <1>8, <1>10, <2>1, <2>2, <2>3
<1>13. /\ t[(n + 3) - 1] = k /\ t[n + 3] = "equals" /\ t[(n + 3) + 1] = "quote"
       /\ t[Len(t)] = "quote"
  <2>1. /\ (n + 3) - 1 = n + 1 + 1 /\ n + 3 = n + 1 + 2 /\ (n + 3) + 1 = n + 1 + 3
        /\ Len(t) = n + 1 + Len(p) /\ Len(p) \in 1..(4 + Len(e))
        /\ 1 \in 1..(4 + Len(e)) /\ 2 \in 1..(4 + Len(e)) /\ 3 \in 1..(4 + Len(e))
    BY <1>4, <1>6, <1>10, SMT
  <2> QED
    BY <1>4, <1>11, <2>1
<1>14. ASSUME NEW j \in 1..Len(e)
       PROVE  t[(n + 3) + 1 + j] = e[j]
  <2>1. (n + 3) + 1 + j = n + 1 + (3 + j) /\ 3 + j \in 1..(4 + Len(e))
    BY <1>4, <1>6, SMT
  <2> QED
    BY <1>4, <1>11, <2>1
<1>15. t = Packed(s, k, v)
  BY <1>2, <1>7, <1>9, ConcatAssociative, SomeChars DEF Packed
<1>16. n + 3 \in Nat /\ n + 3 > 1 /\ Len(t) = (n + 3) + 2 + Len(e)
  BY <1>4, <1>6, <1>10, SMT
<1>17. /\ s \in Seq(Chars) /\ t \in Seq(Chars) /\ e \in Seq(Chars)
       /\ Len(s) > 0 /\ s[Len(s)] = "quote" /\ n + 3 = Len(s) + 3
       /\ \A i \in 1..Len(s) : t[i] = s[i]
  BY <1>4, <1>5, <1>10, <1>12
<1>18. Layout(s, t, n + 3, k, e)
  BY <1>12, <1>13, <1>14, <1>16, <1>17 DEF Layout
<1> QED
  BY <1>1, <1>5, <1>15, <1>18

(* Packing adds one mark.                                                   *)
LEMMA MarksMore ==
  ASSUME NEW s, NEW t, NEW n, NEW k \in Chars \ Separators, NEW v \in Seq(Chars), EndsWell(v),
         Layout(s, t, n, k, Escaped(v))
  PROVE  Marks(t) = Marks(s) \cup {n} /\ n + 2 <= Len(t) /\ n \notin Marks(s)
         /\ \A m \in Marks(s) : m + 3 < n
<1>1. PICK e : e = Escaped(v)
  OBVIOUS
<1>2. Layout(s, t, n, k, e) /\ EscapedWell(v)
  BY <1>1, EscapedRight
<1>3. /\ e \in Seq(Chars) /\ Len(e) \in Nat /\ Len(s) \in Nat /\ n \in Nat /\ n > 1
      /\ Len(t) = n + 2 + Len(e) /\ \A i \in 1..Len(s) : t[i] = s[i]
      /\ (Len(s) = 0 /\ n = 2) \/ (Len(s) > 0 /\ s[Len(s)] = "quote" /\ n = Len(s) + 3
                                     /\ t[n - 2] = "space")
      /\ t[n - 1] = k /\ t[n] = "equals" /\ t[n + 1] = "quote" /\ t[Len(t)] = "quote"
      /\ \A j \in 1..Len(e) : t[n + 1 + j] = e[j]
  BY <1>2, EmptySeq, LenProperties DEF Layout
<1>4. /\ \A j \in 1..Len(e) : e[j] = "quote" => j > 1 /\ e[j - 1] = "backslash"
      /\ Len(e) > 0 => e[Len(e)] # "equals"
  <2>1. Len(e) > 0 => v # <<>> /\ e[Len(e)] = v[Len(v)]
    BY <1>1, <1>2, EmptySeq DEF EscapedWell
  <2> QED
    BY <1>1, <1>2, <2>1 DEF EscapedWell, EndsWell
<1>5. k # "equals" /\ k # "quote"
  BY DEF Separators
<1>6. \A i \in Marks(s) : i \in 1..(Len(s) - 1) /\ s[i] = "equals" /\ s[i + 1] = "quote"
  BY DEF Marks
<1>7. ASSUME NEW m \in Marks(s)
      PROVE  m \in Marks(t) /\ m + 3 < n
  <2>1. /\ m \in 1..(Len(t) - 1) /\ m \in 1..Len(s) /\ m + 1 \in 1..Len(s) /\ m + 3 < n
    BY <1>3, <1>6, SMT
  <2> QED
    BY <1>3, <1>6, <2>1 DEF Marks
<1>8. n \in Marks(t) /\ n + 2 <= Len(t)
  BY <1>3, SMT DEF Marks
<1>9. ASSUME NEW i \in Marks(t), i # n
      PROVE  i \in Marks(s)
  <2>1. i \in 1..(Len(t) - 1) /\ t[i] = "equals" /\ t[i + 1] = "quote"
    BY DEF Marks
  <2>2. CASE i < Len(s)
    <3>1. i \in 1..(Len(s) - 1) /\ i \in 1..Len(s) /\ i + 1 \in 1..Len(s)
      BY <1>3, <2>1, <2>2, SMT
    <3> QED
      BY <1>3, <2>1, <3>1 DEF Marks
  <2>3. CASE i = Len(s)
    <3>1. Len(s) > 0 /\ i \in 1..Len(s) /\ s[i] = "quote"
      BY <1>3, <2>1, <2>3, SMT
    <3> QED
      BY <1>3, <2>1, <3>1
  <2>4. CASE Len(s) < i /\ i < n
    <3>1. i = n - 1 \/ (i = n - 2 /\ Len(s) > 0)
      BY <1>3, <2>1, <2>4, SMT
    <3> QED
      BY <1>3, <1>5, <2>1, <3>1
  <2>5. CASE i = n + 1
    BY <1>3, <2>1, <2>5
  <2>6. CASE i > n + 1
    <3>1. PICK j : j = i - (n + 1)
      OBVIOUS
    <3>2. j \in 1..Len(e) /\ i = n + 1 + j
      BY <1>3, <2>1, <2>6, <3>1, SMT
    <3>3. e[j] = "equals"
      BY <1>3, <2>1, <3>2
    <3>4. CASE j < Len(e)
      <4>1. j + 1 \in 1..Len(e) /\ i + 1 = n + 1 + (j + 1) /\ (j + 1) - 1 = j
        BY <1>3, <3>2, <3>4, SMT
      <4>2. e[j + 1] = "quote"
        BY <1>3, <2>1, <4>1
      <4>3. e[j] = "backslash"
        BY <1>4, <4>1, <4>2
      <4> QED
        BY <3>3, <4>3
    <3>5. CASE j = Len(e)
      BY <1>3, <1>4, <3>2, <3>3, <3>5, SMT
    <3> QED
      BY <1>3, <3>2, <3>4, <3>5, SMT
  <2> QED
    BY <1>3, <1>9, <2>1, <2>2, <2>3, <2>4, <2>5, <2>6, SMT
<1>10. n \notin Marks(s)
  BY <1>3, <1>7, SMT
<1> QED
  BY <1>7, <1>8, <1>9, <1>10

(* The greatest and the least number of a set.                              *)
LEMMA MaxIs ==
  ASSUME NEW S, S \subseteq Int, NEW x \in S, \A y \in S : y <= x
  PROVE  Max(S) = x
<1>1. x \in S /\ \A y \in S : x >= y
  BY SMT
<1>2. ASSUME NEW z \in S, \A y \in S : z >= y
      PROVE  z = x
  BY <1>2, SMT
<1> QED
  BY <1>1, <1>2 DEF Max

(* The least number is known by its bound.                                  *)
LEMMA MinIs ==
  ASSUME NEW S, S \subseteq Int, NEW x \in S, \A y \in S : x <= y
  PROVE  Min(S) = x
<1>1. x \in S /\ \A y \in S : x =< y
  BY SMT
<1>2. ASSUME NEW z \in S, \A y \in S : z =< y
      PROVE  z = x
  BY <1>2, SMT
<1> QED
  BY <1>1, <1>2 DEF Min

(* Natural numbers have a least one.                                        *)
LEMMA MinExists ==
  ASSUME NEW S, S \subseteq Nat, S # {}
  PROVE  Min(S) \in S /\ \A y \in S : Min(S) <= y
<1>1. PICK x \in S : \A y \in S : x <= y
  BY LeastNumber
<1>2. S \subseteq Int
  BY SMT
<1>3. Min(S) = x
  BY <1>1, <1>2, MinIs
<1> QED
  BY <1>1, <1>3

(* Bounded natural numbers have a greatest one.                             *)
LEMMA MaxExists ==
  ASSUME NEW n \in Nat, NEW S, S \subseteq 0..n, S # {}
  PROVE  Max(S) \in S /\ \A y \in S : y <= Max(S)
<1> DEFINE D == {d \in Nat : n - d \in S}
<1>1. PICK x \in S : TRUE
  OBVIOUS
<1>2. D # {}
  <2>1. x \in 0..n
    BY <1>1
  <2>2. n - x \in Nat /\ n - (n - x) = x
    BY <2>1, SMT
  <2> QED
    BY <1>1, <2>2
<1>3. PICK d \in D : \A e \in D : d <= e
  BY <1>2, LeastNumber
<1>4. PICK z : z = n - d
  OBVIOUS
<1>5. z \in S /\ d \in Nat /\ z \in Int
  BY <1>3, <1>4, SMT
<1>6. ASSUME NEW y \in S
      PROVE  y <= z
  <2>1. y \in 0..n
    BY <1>6
  <2>2. n - y \in Nat /\ n - (n - y) = y
    BY <2>1, SMT
  <2>3. n - y \in D
    BY <1>6, <2>2
  <2> QED
    <3>1. d <= n - y
      BY <1>3, <2>3
    <3> QED
      BY <1>4, <1>5, <2>1, <3>1, SMT
<1>7. S \subseteq Int
  BY SMT
<1>8. Max(S) = z
  BY <1>5, <1>6, <1>7, MaxIs
<1> QED
  BY <1>5, <1>6, <1>8

(* A part of a text.                                                        *)
LEMMA SubSeqIs ==
  ASSUME NEW s, NEW a \in Int, NEW b \in Int, \A i \in a..b : s[i] \in Chars
  PROVE  /\ SubSeq(s, a, b) \in Seq(Chars)
         /\ Len(SubSeq(s, a, b)) = IF a <= b THEN b - a + 1 ELSE 0
         /\ \A i \in 1..(b - a + 1) : SubSeq(s, a, b)[i] = s[a + i - 1]
  BY SubSeqProperties

(* Texts that are the same from a to b have the same subsequence there.     *)
LEMMA SubSeqSame ==
  ASSUME NEW s, NEW t, NEW a \in Int, NEW b \in Int,
         \A i \in a..b : s[i] = t[i] /\ s[i] \in Chars
  PROVE  SubSeq(s, a, b) = SubSeq(t, a, b)
<1>1. PICK f : f = SubSeq(s, a, b)
  OBVIOUS
<1>2. PICK g : g = SubSeq(t, a, b)
  OBVIOUS
<1>3. /\ f \in Seq(Chars) /\ Len(f) = IF a <= b THEN b - a + 1 ELSE 0
      /\ \A i \in 1..(b - a + 1) : f[i] = s[a + i - 1]
  <2>1. \A i \in a..b : s[i] \in Chars
    OBVIOUS
  <2> QED
    BY <1>1, <2>1, SubSeqIs
<1>4. /\ g \in Seq(Chars) /\ Len(g) = IF a <= b THEN b - a + 1 ELSE 0
      /\ \A i \in 1..(b - a + 1) : g[i] = t[a + i - 1]
  <2>1. \A i \in a..b : t[i] \in Chars
    OBVIOUS
  <2> QED
    BY <1>2, <2>1, SubSeqIs
<1>5. Len(f) = Len(g)
  BY <1>3, <1>4
<1>6. ASSUME NEW i \in 1..Len(f)
      PROVE  f[i] = g[i]
  <2>1. i \in 1..(b - a + 1) /\ a + i - 1 \in a..b
    BY <1>3, <1>6, SMT
  <2> QED
    BY <1>3, <1>4, <2>1
<1> QED
  BY <1>1, <1>2, <1>3, <1>4, <1>5, <1>6, SeqEqual

(* One character that is no space is not stripped.                          *)
LEMMA StripOne ==
  ASSUME NEW s, NEW i \in Int, s[i] # "space"
  PROVE  Strip(SubSeq(s, i, i)) = <<s[i]>>
<1> DEFINE c == s[i]
           f == SubSeq(s, i, i)
<1>1. /\ f \in Seq({c}) /\ Len(f) = 1 /\ f[1] = c
  <2>1. \A j \in i..i : s[j] \in {c}
    BY SMT
  <2>2. i <= i /\ i - i + 1 = 1 /\ i + 1 - 1 = i /\ 1 \in 1..1
    BY SMT
  <2>3. /\ f \in Seq({c}) /\ Len(f) = IF i <= i THEN i - i + 1 ELSE 0
        /\ \A j \in 1..(i - i + 1) : f[j] = s[i + j - 1]
    BY <2>1, SubSeqProperties
  <2> QED
    BY <2>2, <2>3
<1>2. DOMAIN <<c>> = {1} /\ <<c>>[1] = c /\ <<c>> \in Seq({c}) /\ Len(<<c>>) = 1
  BY SMT
<1>3. f = <<c>>
  <2> HIDE DEF f, c
  <2>1. Len(f) = Len(<<c>>) /\ \A j \in 1..Len(f) : f[j] = <<c>>[j]
    BY <1>1, <1>2, SMT
  <2> QED
    BY <1>1, <1>2, <2>1, SeqEqual
<1>4. {j \in DOMAIN <<c>> : <<c>>[j] # "space"} = {1}
  BY <1>2
<1>5. Min({1}) = 1 /\ Max({1}) = 1
  <2>1. {1} \subseteq Int /\ 1 \in {1} /\ \A y \in {1} : y <= 1 /\ 1 <= y
    BY SMT
  <2> QED
    BY <2>1, MinIs, MaxIs
<1>6. SubSeq(<<c>>, 1, 1) = <<c>>
  BY <1>2, SubSeqFull
<1>7. Strip(<<c>>) = <<c>>
  BY <1>4, <1>5, <1>6 DEF Strip
<1> QED
  BY <1>3, <1>7

(* The property that was packed last is read as it was packed.              *)
LEMMA LastProperty ==
  ASSUME NEW s, NEW t, NEW n, NEW k \in Chars \ Separators, NEW v \in Seq(Chars), EndsWell(v),
         Layout(s, t, n, k, Escaped(v)), s = <<>> \/ Marks(s) # {},
         \A m \in Marks(s) : m + 2 <= Len(s)
  PROVE  KeyAt(t, n) = <<k>> /\ ValueAt(t, n) = v
<1>1. PICK e : e = Escaped(v)
  OBVIOUS
<1>2. Layout(s, t, n, k, e) /\ e \in Seq(Chars) /\ Unescaped(e) = v
  BY <1>1, EscapedRight DEF EscapedWell
<1>3. /\ t \in Seq(Chars) /\ Len(e) \in Nat /\ Len(s) \in Nat /\ n \in Nat /\ n > 1
      /\ Len(t) = n + 2 + Len(e) /\ (Len(s) > 0 => s[Len(s)] = "quote")
      /\ (Len(s) = 0 /\ n = 2) \/ (Len(s) > 0 /\ n = Len(s) + 3 /\ t[n - 2] = "space")
      /\ t[n - 1] = k
  <2>1. s \in Seq(Chars) /\ t \in Seq(Chars) /\ (s = <<>> => Len(s) = 0)
    BY <1>2, EmptySeq DEF Layout
  <2>2. Len(s) \in Nat /\ Len(e) \in Nat
    BY <1>2, <2>1, LenProperties
  <2>3. \/ Len(s) = 0 /\ n = 2
        \/ Len(s) > 0 /\ s[Len(s)] = "quote" /\ n = Len(s) + 3 /\ t[n - 2] = "space"
    BY <1>2, <2>1 DEF Layout
  <2>4. n \in Nat /\ n > 1 /\ Len(t) = n + 2 + Len(e) /\ t[n - 1] = k
    BY <1>2 DEF Layout
  <2>5. Len(s) > 0 => s[Len(s)] = "quote"
    BY <2>2, <2>3, SMT
  <2> QED
    BY <2>1, <2>2, <2>3, <2>4, <2>5
<1>4. (\A i \in 1..Len(s) : t[i] = s[i]) /\ (\A j \in 1..Len(e) : t[n + 1 + j] = e[j])
  BY <1>2 DEF Layout
<1>5. Marks(t) = Marks(s) \cup {n} /\ n \notin Marks(s) /\ \A m \in Marks(s) : m + 3 < n
  BY MarksMore
<1>6. Marks(s) \subseteq 1..(Len(s) - 1)
  BY DEF Marks
<1>7. {i \in Marks(t) : i < n} = Marks(s)
  <2>1. \A i \in Marks(s) : i < n
    BY <1>3, <1>5, <1>6, SMT
  <2>2. ~ (n < n)
    BY <1>3, SMT
  <2> QED
    BY <1>5, <2>1, <2>2
<1>8. k # "space"
  BY DEF Separators
<1>9. Strip(SubSeq(t, n - 1, n - 1)) = <<k>>
  <2>1. n - 1 \in Int
    BY <1>3, SMT
  <2> QED
    BY <1>3, <1>8, <2>1, StripOne
<1>10. KeyAt(t, n) = <<k>>
  <2>1. CASE Marks(s) = {}
    <3>1. s = <<>> /\ Len(s) = 0
      BY <2>1, EmptySeq
    <3>2. n = 2 /\ -1 + 2 = n - 1
      BY <1>3, <3>1, SMT
    <3>3. KeyAt(t, n) = Strip(SubSeq(t, -1 + 2, n - 1))
      BY <1>7, <2>1 DEF KeyAt
    <3> QED
      BY <1>9, <3>2, <3>3
  <2>2. CASE Marks(s) # {}
    <3>1. PICK m : m = Max(Marks(s))
      OBVIOUS
    <3>2. m \in Marks(s)
      <4>1. Marks(s) \subseteq 0..Len(s)
        BY <1>3, <1>6, SMT
      <4> QED
        BY <1>3, <2>2, <3>1, <4>1, MaxExists
    <3>3. m \in Nat /\ m + 3 < n /\ m + 2 <= Len(s) /\ Len(s) > 0 /\ n = Len(s) + 3
      BY <1>3, <1>5, <1>6, <3>2, SMT
    <3>4. PICK ends : ends = Ends(t, m, n)
      OBVIOUS
    <3>5. ends = {i \in (m + 2)..(n - 2) : t[i] = "quote" /\ t[i + 1] = "space"}
      BY <3>4 DEF Ends
    <3>6. n - 3 \in ends
      <4>1. /\ n - 3 \in (m + 2)..(n - 2) /\ n - 3 = Len(s)
            /\ Len(s) \in 1..Len(s) /\ (n - 3) + 1 = n - 2
        BY <1>3, <3>3, SMT
      <4>2. t[n - 3] = "quote" /\ t[(n - 3) + 1] = "space"
        BY <1>3, <1>4, <3>3, <4>1
      <4> QED
        BY <3>5, <4>1, <4>2
    <3>7. \A i \in ends : i <= n - 3
      <4>1. t[n - 2] = "space"
        BY <1>3, <3>3, SMT
      <4>2. ASSUME NEW i \in ends
            PROVE  i <= n - 3
        <5>1. i \in (m + 2)..(n - 2) /\ i # n - 2
          BY <3>5, <4>1
        <5>2. n \in Nat /\ m \in Nat
          BY <1>3, <3>3
        <5> QED
          BY <5>1, <5>2, SMT
      <4> QED
        BY <4>2
    <3>8. ends \subseteq Int
      BY <1>3, <3>3, <3>5, SMT
    <3>9. Max(ends) = n - 3
      BY <3>6, <3>7, <3>8, MaxIs
    <3>10. KeyAt(t, n) = Strip(SubSeq(t, Max(ends) + 2, n - 1))
      <4>1. ends # {}
        BY <3>6
      <4> QED
        BY <1>7, <2>2, <3>1, <3>4, <4>1, Zenon DEF KeyAt
    <3>11. (n - 3) + 2 = n - 1
      BY <1>3, SMT
    <3> QED
      BY <1>9, <3>9, <3>10, <3>11
  <2> QED
    BY <2>1, <2>2
<1>11. ValueAt(t, n) = v
  <2>1. {i \in Marks(t) : n < i} = {}
    BY <1>3, <1>5, <1>6, SMT
  <2>2. ValueAt(t, n) = Unescaped(SubSeq(t, n + 2, Len(t) - 1))
    BY <2>1, Zenon DEF ValueAt
  <2>3. PICK f : f = SubSeq(t, n + 2, Len(t) - 1)
    OBVIOUS
  <2>4. /\ f \in Seq(Chars)
        /\ Len(f) = IF n + 2 <= Len(t) - 1 THEN (Len(t) - 1) - (n + 2) + 1 ELSE 0
        /\ \A i \in 1..((Len(t) - 1) - (n + 2) + 1) : f[i] = t[n + 2 + i - 1]
    <3>1. n + 2 \in Int /\ Len(t) - 1 \in Int /\ \A i \in (n + 2)..(Len(t) - 1) : i \in 1..Len(t)
      BY <1>3, SMT
    <3>2. \A i \in (n + 2)..(Len(t) - 1) : t[i] \in Chars
      BY <1>3, <3>1, ElementOfSeq
    <3>3. PICK a : a = n + 2
      OBVIOUS
    <3>4. PICK b : b = Len(t) - 1
      OBVIOUS
    <3>5. a \in Int /\ b \in Int /\ \A i \in a..b : t[i] \in Chars
      BY <3>1, <3>2, <3>3, <3>4
    <3>6. /\ SubSeq(t, a, b) \in Seq(Chars)
          /\ Len(SubSeq(t, a, b)) = IF a <= b THEN b - a + 1 ELSE 0
          /\ \A i \in 1..(b - a + 1) : SubSeq(t, a, b)[i] = t[a + i - 1]
      BY <3>5, SubSeqIs
    <3> QED
      BY <2>3, <3>3, <3>4, <3>6
  <2>5. Len(f) = Len(e) /\ (Len(t) - 1) - (n + 2) + 1 = Len(e)
    BY <1>3, <2>4, SMT
  <2>6. ASSUME NEW i \in 1..Len(f)
        PROVE  f[i] = e[i]
    <3>1. i \in 1..Len(e) /\ n + 2 + i - 1 = n + 1 + i
      BY <1>3, <2>5, SMT
    <3> QED
      BY <1>4, <2>4, <2>5, <3>1
  <2>7. f = e
    BY <1>2, <2>4, <2>5, <2>6, SeqEqual
  <2> QED
    BY <1>2, <2>2, <2>3, <2>7
<1> QED
  BY <1>10, <1>11

(* The ends of values before the last mark are where they were.             *)
LEMMA EndsSame ==
  ASSUME NEW s, NEW t, \A i \in 1..Len(s) : t[i] = s[i], Len(s) \in Nat,
         NEW m \in Nat, NEW j \in Int, j <= Len(s)
  PROVE  Ends(t, m, j) = Ends(s, m, j)
<1>1. ASSUME NEW i \in (m + 2)..(j - 2)
      PROVE  t[i] = s[i] /\ t[i + 1] = s[i + 1]
  <2>1. i \in 1..Len(s) /\ i + 1 \in 1..Len(s)
    BY <1>1, SMT
  <2> QED
    BY <2>1
<1> QED
  BY <1>1 DEF Ends

(* The properties that were packed before are read as they were.            *)
LEMMA EarlierProperties ==
  ASSUME NEW s, NEW t, NEW n, NEW k \in Chars \ Separators, NEW v \in Seq(Chars), EndsWell(v),
         Layout(s, t, n, k, Escaped(v)), \A m \in Marks(s) : m + 2 <= Len(s),
         NEW m \in Marks(s)
  PROVE  KeyAt(t, m) = KeyAt(s, m) /\ ValueAt(t, m) = ValueAt(s, m)
<1>1. /\ s \in Seq(Chars) /\ t \in Seq(Chars) /\ Len(s) \in Nat /\ n \in Nat
      /\ (Len(s) > 0 => s[Len(s)] = "quote")
      /\ (Len(s) = 0 /\ n = 2) \/ (Len(s) > 0 /\ n = Len(s) + 3 /\ t[n - 2] = "space")
      /\ \A i \in 1..Len(s) : t[i] = s[i]
  BY EmptySeq, LenProperties DEF Layout
<1>2. Marks(t) = Marks(s) \cup {n} /\ n \notin Marks(s) /\ \A i \in Marks(s) : i + 3 < n
  BY MarksMore
<1>3. Marks(s) \subseteq 1..(Len(s) - 1) /\ Marks(s) \subseteq Nat /\ Marks(s) \subseteq 0..Len(s)
  BY <1>1, SMT DEF Marks
<1>4. m \in Nat /\ m <= Len(s) /\ Len(s) > 0 /\ n = Len(s) + 3 /\ m + 2 <= Len(s)
  BY <1>1, <1>3, SMT
<1>5. \A i \in 1..Len(s) : s[i] = t[i] /\ s[i] \in Chars
  BY <1>1, ElementOfSeq
<1>6. KeyAt(t, m) = KeyAt(s, m)
  <2>1. PICK before : before = {i \in Marks(s) : i < m}
    OBVIOUS
  <2>2. {i \in Marks(t) : i < m} = before
    BY <1>2, <1>4, <2>1, SMT
  <2>3. ASSUME NEW a \in Int, 1 <= a
        PROVE  SubSeq(t, a, m - 1) = SubSeq(s, a, m - 1)
    <3>1. m - 1 \in Int /\ \A i \in a..(m - 1) : i \in 1..Len(s)
      BY <1>1, <1>4, <2>3, SMT
    <3> QED
      BY <1>5, <2>3, <3>1, SubSeqSame
  <2>4. CASE before = {}
    <3>1. /\ KeyAt(s, m) = Strip(SubSeq(s, -1 + 2, m - 1))
          /\ KeyAt(t, m) = Strip(SubSeq(t, -1 + 2, m - 1))
      BY <2>1, <2>2, <2>4, Zenon DEF KeyAt
    <3>2. -1 + 2 \in Int /\ 1 <= -1 + 2
      BY SMT
    <3> QED
      BY <2>3, <3>1, <3>2
  <2>5. CASE before # {}
    <3>1. PICK b : b = Max(before)
      OBVIOUS
    <3>2. b \in Nat
      <4>1. before \subseteq 0..Len(s) /\ Len(s) \in Nat
        BY <1>1, <1>3, <2>1
      <4>2. b \in before
        BY <2>5, <3>1, <4>1, MaxExists, Zenon
      <4> QED
        BY <1>3, <2>1, <4>2
    <3>3. PICK ends : ends = Ends(s, b, m)
      OBVIOUS
    <3>4. Ends(t, b, m) = ends
      <4>1. m \in Int
        BY <1>4
      <4> QED
        BY <1>1, <1>4, <3>2, <3>3, <4>1, EndsSame
    <3>5. PICK a : a = IF ends = {} THEN b + 2 ELSE Max(ends) + 2
      OBVIOUS
    <3>6. KeyAt(s, m) = Strip(SubSeq(s, a, m - 1)) /\ KeyAt(t, m) = Strip(SubSeq(t, a, m - 1))
      BY <2>1, <2>2, <2>5, <3>1, <3>3, <3>4, <3>5, Zenon DEF KeyAt
    <3>7. a \in Int /\ 1 <= a
      <4>1. ends \subseteq (b + 2)..(m - 2)
        BY <3>3 DEF Ends
      <4>2. ends \subseteq 0..Len(s)
        BY <1>1, <1>4, <3>2, <4>1, SMT
      <4>3. ends # {} => Max(ends) \in 0..Len(s)
        BY <1>1, <4>2, MaxExists
      <4> QED
        BY <1>1, <3>2, <3>5, <4>3, SMT
    <3> QED
      BY <2>3, <3>6, <3>7
  <2> QED
    BY <2>4, <2>5
<1>7. ValueAt(t, m) = ValueAt(s, m)
  <2>1. PICK after : after = {i \in Marks(s) : m < i}
    OBVIOUS
  <2>2. PICK later : later = {i \in Marks(t) : m < i}
    OBVIOUS
  <2>3. later = after \cup {n}
    BY <1>2, <1>4, <2>1, <2>2, SMT
  <2>4. ASSUME NEW b \in Int, b <= Len(s)
        PROVE  SubSeq(t, m + 2, b) = SubSeq(s, m + 2, b)
    <3>1. m + 2 \in Int /\ \A i \in (m + 2)..b : i \in 1..Len(s)
      BY <1>1, <1>4, <2>4, SMT
    <3>2. \A i \in (m + 2)..b : s[i] = t[i] /\ s[i] \in Chars
      BY <1>5, <3>1
    <3>3. PICK a : a = m + 2
      OBVIOUS
    <3>4. a \in Int /\ \A i \in a..b : s[i] = t[i] /\ s[i] \in Chars
      BY <3>1, <3>2, <3>3
    <3>5. SubSeq(s, a, b) = SubSeq(t, a, b)
      BY <3>4, SubSeqSame
    <3> QED
      BY <3>3, <3>5
  <2>5. CASE after = {}
    <3>1. Min(later) = n
      <4>1. later = {n} /\ {n} \subseteq Int /\ n \in {n} /\ \A y \in {n} : n <= y
        BY <1>1, <2>3, <2>5, SMT
      <4> QED
        BY <4>1, MinIs
    <3>2. PICK ends : ends = Ends(t, m, n)
      OBVIOUS
    <3>3. ends = {i \in (m + 2)..(n - 2) : t[i] = "quote" /\ t[i + 1] = "space"}
      BY <3>2 DEF Ends
    <3>4. n - 3 \in ends
      <4>1. /\ n - 3 \in (m + 2)..(n - 2) /\ n - 3 = Len(s)
            /\ Len(s) \in 1..Len(s) /\ (n - 3) + 1 = n - 2
        BY <1>1, <1>4, SMT
      <4>2. t[n - 3] = "quote" /\ t[(n - 3) + 1] = "space"
        BY <1>1, <1>4, <4>1
      <4> QED
        BY <3>3, <4>1, <4>2
    <3>5. ASSUME NEW i \in ends
          PROVE  i <= n - 3
      <4>1. i \in (m + 2)..(n - 2) /\ i # n - 2
        BY <1>1, <1>4, <3>3
      <4>2. n \in Nat /\ m \in Nat
        BY <1>1, <1>4
      <4> QED
        BY <4>1, <4>2, SMT
    <3>6. ends \subseteq Int
      BY <1>1, <1>4, <3>3, SMT
    <3>7. Max(ends) = n - 3
      BY <3>4, <3>5, <3>6, MaxIs
    <3>8. ValueAt(t, m) = Unescaped(SubSeq(t, m + 2, Max(ends) - 1))
      <4>1. later # {} /\ ends # {}
        BY <2>3, <3>4
      <4> QED
        BY <2>2, <3>1, <3>2, <4>1, Zenon DEF ValueAt
    <3>9. ValueAt(s, m) = Unescaped(SubSeq(s, m + 2, Len(s) - 1))
      BY <2>1, <2>5, Zenon DEF ValueAt
    <3>10. (n - 3) - 1 = Len(s) - 1 /\ Len(s) - 1 \in Int /\ Len(s) - 1 <= Len(s)
      BY <1>1, <1>4, SMT
    <3> QED
      BY <2>4, <3>7, <3>8, <3>9, <3>10
  <2>6. CASE after # {}
    <3>1. after \subseteq Nat /\ after \subseteq Marks(s)
      BY <1>3, <2>1
    <3>2. PICK j : j = Min(after)
      OBVIOUS
    <3>3. j \in after /\ \A i \in after : j <= i
      BY <2>6, <3>1, <3>2, MinExists
    <3>4. j \in Nat /\ j <= Len(s) /\ j <= n
      BY <1>1, <1>3, <1>4, <3>1, <3>3, SMT
    <3>5. Min(later) = j
      <4>1. later \subseteq Int
        BY <1>1, <2>3, <3>1, SMT
      <4>2. j \in later /\ \A i \in later : j <= i
        BY <2>3, <3>3, <3>4
      <4> QED
        BY <4>1, <4>2, MinIs
    <3>6. PICK ends : ends = Ends(s, m, j)
      OBVIOUS
    <3>7. Ends(t, m, j) = ends
      <4>1. j \in Int
        BY <3>4
      <4> QED
        BY <1>1, <1>4, <3>4, <3>6, <4>1, EndsSame
    <3>8. PICK b : b = IF ends = {} THEN 0 ELSE Max(ends) - 1
      OBVIOUS
    <3>9. ValueAt(s, m) = Unescaped(SubSeq(s, m + 2, b))
      BY <2>1, <2>6, <3>2, <3>6, <3>8, Zenon DEF ValueAt
    <3>10. ValueAt(t, m) = Unescaped(SubSeq(t, m + 2, b))
      <4>1. later # {}
        BY <2>3
      <4> QED
        BY <2>2, <3>5, <3>7, <3>8, <4>1, Zenon DEF ValueAt
    <3>11. b \in Int /\ b <= Len(s)
      <4>1. ends \subseteq (m + 2)..(j - 2)
        BY <3>6 DEF Ends
      <4>2. ends \subseteq 0..Len(s)
        BY <1>1, <1>4, <3>4, <4>1, SMT
      <4>3. ends # {} => Max(ends) \in 0..Len(s)
        BY <1>1, <4>2, MaxExists
      <4> QED
        BY <1>1, <3>8, <4>3, SMT
    <3> QED
      BY <2>4, <3>9, <3>10, <3>11
  <2> QED
    BY <2>5, <2>6
<1> QED
  BY <1>6, <1>7

(* A text of properties.                                                    *)
IsText(s) ==
  /\ s \in Seq(Chars) /\ Len(s) > 0 /\ s[Len(s)] = "quote"
  /\ Marks(s) # {} /\ \A m \in Marks(s) : m + 2 <= Len(s)

(* The properties q are p and one more.                                     *)
AddsAt(p, q, n, k, v) ==
  /\ n \in Nat /\ DOMAIN p \subseteq 0..n /\ n \notin DOMAIN p /\ DOMAIN q = DOMAIN p \cup {n}
  /\ q[n] = [key |-> <<k>>, value |-> v]
  /\ \A m \in DOMAIN p : q[m] = p[m]

Adds(p, q, k, v) == \E n : AddsAt(p, q, n, k, v)

(* What is unpacked of one property.                                        *)
LEMMA PropsOne ==
  ASSUME NEW k \in Chars \ Separators, NEW v \in Seq(Chars), EndsWell(v)
  PROVE  /\ IsText(pack_property(k, v))
         /\ Adds(<<>>, unpack_properties(pack_property(k, v)), k, v)
<1>1. PICK t : t = pack_property(k, v)
  OBVIOUS
<1>2. PICK s : s = <<>>
  OBVIOUS
<1>3. Layout(s, t, 2, k, Escaped(v))
  BY <1>1, <1>2, PackedOne
<1>4. Marks(s) = {}
  BY <1>2, EmptySeq, SMT DEF Marks
<1>5. Marks(t) = {2} /\ 2 + 2 <= Len(t)
  <2>1. PICK n : n = 2
    OBVIOUS
  <2>2. Marks(t) = Marks(s) \cup {n} /\ n + 2 <= Len(t)
    BY <1>3, <2>1, MarksMore
  <2> QED
    BY <1>4, <2>1, <2>2
<1>6. KeyAt(t, 2) = <<k>> /\ ValueAt(t, 2) = v
  BY <1>2, <1>3, <1>4, LastProperty
<1>7. IsText(t)
  <2>1. t \in Seq(Chars) /\ t[Len(t)] = "quote"
    BY <1>3 DEF Layout
  <2>2. Len(t) \in Nat
    BY <2>1, LenProperties
  <2> QED
    BY <1>5, <2>1, <2>2, SMT DEF IsText
<1>8. PICK q : q = unpack_properties(t)
  OBVIOUS
<1>9. DOMAIN q = {2} /\ q[2] = [key |-> <<k>>, value |-> v]
  BY <1>5, <1>6, <1>8 DEF unpack_properties
<1>10. AddsAt(s, q, 2, k, v)
  <2>1. DOMAIN s = {} /\ 2 \in Nat
    BY <1>2, SMT
  <2> QED
    BY <1>9, <2>1 DEF AddsAt
<1> QED
  BY <1>1, <1>2, <1>7, <1>8, <1>10 DEF Adds

(* What is unpacked of one property more.                                   *)
LEMMA PropsMore ==
  ASSUME NEW s, IsText(s), NEW k \in Chars \ Separators, NEW v \in Seq(Chars), EndsWell(v)
  PROVE  /\ IsText(Packed(s, k, v))
         /\ Adds(unpack_properties(s), unpack_properties(Packed(s, k, v)), k, v)
<1>1. PICK t : t = Packed(s, k, v)
  OBVIOUS
<1>2. PICK n : n = Len(s) + 3
  OBVIOUS
<1>3. s \in Seq(Chars) /\ Len(s) \in Nat /\ n \in Nat /\ Marks(s) # {} /\ s[Len(s)] = "quote"
      /\ Len(s) > 0
  <2>1. s \in Seq(Chars) /\ Marks(s) # {} /\ s[Len(s)] = "quote" /\ Len(s) > 0
    BY DEF IsText
  <2> QED
    BY <1>2, <2>1, LenProperties, SMT
<1>4. \A m \in Marks(s) : m + 2 <= Len(s)
  BY DEF IsText
<1>5. Layout(s, t, n, k, Escaped(v))
  BY <1>1, <1>2, <1>3, PackedTwo
<1>6. /\ Marks(t) = Marks(s) \cup {n} /\ n + 2 <= Len(t) /\ n \notin Marks(s)
      /\ \A m \in Marks(s) : m + 3 < n
  BY <1>5, MarksMore
<1>7. KeyAt(t, n) = <<k>> /\ ValueAt(t, n) = v
  BY <1>3, <1>4, <1>5, LastProperty
<1>8. ASSUME NEW m \in Marks(s)
      PROVE  KeyAt(t, m) = KeyAt(s, m) /\ ValueAt(t, m) = ValueAt(s, m)
  BY <1>4, <1>5, EarlierProperties
<1>9. IsText(t)
  <2>1. t \in Seq(Chars) /\ t[Len(t)] = "quote"
    BY <1>5 DEF Layout
  <2>2. Len(t) \in Nat
    BY <2>1, LenProperties
  <2>3. Marks(s) \subseteq Nat
    BY SMT DEF Marks
  <2>4. Len(t) > 0 /\ \A m \in Marks(t) : m + 2 <= Len(t)
    BY <1>3, <1>6, <2>2, <2>3, SMT
  <2> QED
    BY <1>6, <2>1, <2>4 DEF IsText
<1>10. PICK p : p = unpack_properties(s)
  OBVIOUS
<1>11. PICK q : q = unpack_properties(t)
  OBVIOUS
<1>12. /\ DOMAIN p = Marks(s)
       /\ \A m \in Marks(s) : p[m] = [key |-> KeyAt(s, m), value |-> ValueAt(s, m)]
  BY <1>10 DEF unpack_properties
<1>13. /\ DOMAIN q = Marks(t)
       /\ \A m \in Marks(t) : q[m] = [key |-> KeyAt(t, m), value |-> ValueAt(t, m)]
  BY <1>11 DEF unpack_properties
<1>14. DOMAIN p \subseteq 0..n
  BY <1>2, <1>3, <1>12, SMT DEF Marks
<1>15. AddsAt(p, q, n, k, v)
  BY <1>3, <1>6, <1>7, <1>8, <1>12, <1>13, <1>14 DEF AddsAt
<1> QED
  BY <1>1, <1>9, <1>10, <1>11, <1>15 DEF Adds

(* What is given and got with one more property.                            *)
LEMMA GivenMore ==
  ASSUME NEW p, NEW q, NEW k, NEW v, Adds(p, q, k, v)
  PROVE  /\ \A name : name # k => /\ Given(q, name) = Given(p, name)
                                   /\ \A fallback : Got(q, name, fallback) = Got(p, name, fallback)
         /\ Given(p, k) = {} => /\ Given(q, k) # {}
                                /\ \A fallback : Got(q, k, fallback) = v
         /\ \A m \in DOMAIN q : q[m].key = <<k>> \/ (m \in DOMAIN p /\ q[m].key = p[m].key)
<1>1. PICK n : AddsAt(p, q, n, k, v)
  BY DEF Adds
<1>2. /\ n \in Nat /\ DOMAIN p \subseteq 0..n /\ n \notin DOMAIN p /\ DOMAIN q = DOMAIN p \cup {n}
      /\ q[n].key = <<k>> /\ q[n].value = v
      /\ \A m \in DOMAIN p : q[m] = p[m]
  BY <1>1 DEF AddsAt
<1>3. ASSUME NEW name, name # k
      PROVE  /\ Given(q, name) = Given(p, name)
             /\ \A fallback : Got(q, name, fallback) = Got(p, name, fallback)
  <2>1. <<name>> # <<k>>
    BY <1>3
  <2>2. Given(q, name) = Given(p, name)
    BY <1>2, <2>1, Zenon DEF Given
  <2>3. ASSUME NEW fallback
        PROVE  Got(q, name, fallback) = Got(p, name, fallback)
    <3>1. CASE Given(p, name) = {}
      BY <2>2, <3>1, Zenon DEF Got
    <3>2. CASE Given(p, name) # {}
      <4>1. PICK m : m = Max(Given(p, name))
        OBVIOUS
      <4>2. Got(q, name, fallback) = q[m].value /\ Got(p, name, fallback) = p[m].value
        BY <2>2, <3>2, <4>1, Zenon DEF Got
      <4>3. m \in DOMAIN p
        <5>1. Given(p, name) \subseteq 0..n
          BY <1>2 DEF Given
        <5>2. m \in Given(p, name)
          BY <1>2, <3>2, <4>1, <5>1, MaxExists
        <5> QED
          BY <5>2 DEF Given
      <4> QED
        BY <1>2, <4>2, <4>3
    <3> QED
      BY <3>1, <3>2
  <2> QED
    BY <2>2, <2>3
<1>4. ASSUME Given(p, k) = {}
      PROVE  /\ Given(q, k) # {}
             /\ \A fallback : Got(q, k, fallback) = v
  <2>1. Given(q, k) = {n}
    BY <1>2, <1>4 DEF Given
  <2>2. Max({n}) = n
    <3>1. {n} \subseteq Int /\ n \in {n} /\ \A y \in {n} : y <= n
      BY <1>2, SMT
    <3> QED
      BY <3>1, MaxIs
  <2>3. Given(q, k) # {}
    BY <2>1
  <2>4. ASSUME NEW fallback
        PROVE  Got(q, k, fallback) = v
    BY <1>2, <2>1, <2>2, <2>3, Zenon DEF Got
  <2> QED
    BY <2>3, <2>4
<1>5. \A m \in DOMAIN q : q[m].key = <<k>> \/ (m \in DOMAIN p /\ q[m].key = p[m].key)
  BY <1>2
<1> QED
  BY <1>3, <1>4, <1>5

(* The names of properties, and the texts of one name.                      *)
LEMMA NamesAndModes ==
  /\ "device_id" \in Chars \ Separators /\ "port_id" \in Chars \ Separators
  /\ "mode" \in Chars \ Separators /\ "_option" \in Chars \ Separators
  /\ AssignmentModes \subseteq Chars \ Separators
  /\ \A c \in Chars \ Separators : <<c>> \in Seq(Chars) /\ EndsWell(<<c>>) /\ <<c>> # <<>>
<1>1. /\ "device_id" \in Chars \ Separators /\ "port_id" \in Chars \ Separators
      /\ "mode" \in Chars \ Separators /\ "_option" \in Chars \ Separators
  BY SomeChars, SMT DEF Named, Separators
<1>2. AssignmentModes \subseteq Chars \ Separators
  BY SomeChars, SMT DEF AssignmentModes, Separators
<1>3. ASSUME NEW c \in Chars \ Separators
      PROVE  <<c>> \in Seq(Chars) /\ EndsWell(<<c>>) /\ <<c>> # <<>>
  <2>1. <<c>> \in Seq(Chars) /\ Len(<<c>>) = 1 /\ <<c>>[1] = c /\ c # "equals"
    BY SMT DEF Separators
  <2>2. <<c>> # <<>>
    BY <2>1, EmptySeq, SMT
  <2> QED
    BY <2>1, <2>2, Zenon DEF EndsWell
<1> QED
  BY <1>1, <1>2, <1>3

(* The properties an assignment is sent with.                               *)
LEMMA SerializedProps ==
  ASSUME NEW k, NEW a, IsAssignment(k, a), NEW p, p = unpack_properties(serialize(k, a))
  PROVE  /\ IsText(serialize(k, a))
         /\ \A fallback : /\ Got(p, "device_id", fallback) = k.device
                          /\ Got(p, "port_id", fallback) = <<k.port>>
                          /\ Got(p, "mode", fallback) = <<a.mode>>
                          /\ a.option # <<>> => Got(p, "_option", fallback) = a.option[1]
         /\ Given(p, "_option") = {} <=> a.option = <<>>
         /\ \A m \in DOMAIN p : p[m].key \in {<<name>> : name \in Named}
<1>1. PICK t1 : t1 = pack_property("device_id", k.device)
  OBVIOUS
<1>2. PICK t2 : t2 = Packed(t1, "port_id", <<k.port>>)
  OBVIOUS
<1>3. PICK t3 : t3 = Packed(t2, "mode", <<a.mode>>)
  OBVIOUS
<1>4. PICK p1 : p1 = unpack_properties(t1)
  OBVIOUS
<1>5. PICK p2 : p2 = unpack_properties(t2)
  OBVIOUS
<1>6. PICK p3 : p3 = unpack_properties(t3)
  OBVIOUS
<1>7. /\ k.device \in Seq(Chars) /\ EndsWell(k.device)
      /\ k.port \in Chars \ Separators /\ a.mode \in AssignmentModes
      /\ a.option # <<>> => a.option[1] \in Seq(Chars) /\ EndsWell(a.option[1])
  BY DEF IsAssignment, KeptText
<1>8. /\ <<k.port>> \in Seq(Chars) /\ EndsWell(<<k.port>>)
      /\ <<a.mode>> \in Seq(Chars) /\ EndsWell(<<a.mode>>)
  BY <1>7, NamesAndModes
<1>9. IsText(t1) /\ Adds(<<>>, p1, "device_id", k.device)
  BY <1>1, <1>4, <1>7, PropsOne, NamesAndModes
<1>10. IsText(t2) /\ Adds(p1, p2, "port_id", <<k.port>>)
  BY <1>2, <1>4, <1>5, <1>8, <1>9, PropsMore, NamesAndModes
<1>11. IsText(t3) /\ Adds(p2, p3, "mode", <<a.mode>>)
  BY <1>3, <1>5, <1>6, <1>8, <1>10, PropsMore, NamesAndModes
<1>12. \A name : Given(<<>>, name) = {}
  <2>1. DOMAIN <<>> = {}
    BY SMT
  <2> QED
    BY <2>1, Zenon DEF Given
<1>13. /\ \A name : name # "device_id" => Given(p1, name) = {}
       /\ \A fallback : Got(p1, "device_id", fallback) = k.device
       /\ \A m \in DOMAIN p1 : p1[m].key = <<"device_id">>
  <2>1. \A m \in DOMAIN <<>> : FALSE
    BY SMT
  <2>2. /\ \A name : name # "device_id" => Given(p1, name) = Given(<<>>, name)
        /\ Given(<<>>, "device_id") = {} =>
             \A fallback : Got(p1, "device_id", fallback) = k.device
        /\ \A m \in DOMAIN p1 : p1[m].key = <<"device_id">> \/ m \in DOMAIN <<>>
    BY <1>9, GivenMore
  <2> QED
    BY <1>12, <2>1, <2>2, Zenon
<1>14. /\ \A name : name # "port_id" => /\ Given(p2, name) = Given(p1, name)
                                         /\ \A fallback :
                                               Got(p2, name, fallback) = Got(p1, name, fallback)
       /\ Given(p1, "port_id") = {} => \A fallback : Got(p2, "port_id", fallback) = <<k.port>>
       /\ \A m \in DOMAIN p2 : \/ p2[m].key = <<"port_id">>
                               \/ m \in DOMAIN p1 /\ p2[m].key = p1[m].key
  BY <1>10, GivenMore
<1>15. /\ \A name : name # "mode" => /\ Given(p3, name) = Given(p2, name)
                                      /\ \A fallback :
                                            Got(p3, name, fallback) = Got(p2, name, fallback)
       /\ Given(p2, "mode") = {} => \A fallback : Got(p3, "mode", fallback) = <<a.mode>>
       /\ \A m \in DOMAIN p3 : p3[m].key = <<"mode">> \/ (m \in DOMAIN p2 /\ p3[m].key = p2[m].key)
  BY <1>11, GivenMore
<1>16. "port_id" # "device_id" /\ "mode" # "device_id" /\ "mode" # "port_id"
       /\ "_option" # "device_id" /\ "_option" # "port_id" /\ "_option" # "mode"
  OBVIOUS
<1>17. /\ Given(p3, "_option") = {}
       /\ \A fallback : /\ Got(p3, "device_id", fallback) = k.device
                        /\ Got(p3, "port_id", fallback) = <<k.port>>
                        /\ Got(p3, "mode", fallback) = <<a.mode>>
  <2>1. Given(p1, "port_id") = {} /\ Given(p1, "mode") = {} /\ Given(p1, "_option") = {}
    BY <1>13, <1>16
  <2>2. /\ Given(p2, "mode") = {} /\ Given(p2, "_option") = {}
        /\ \A fallback : /\ Got(p2, "device_id", fallback) = k.device
                         /\ Got(p2, "port_id", fallback) = <<k.port>>
    BY <1>13, <1>14, <1>16, <2>1
  <2> QED
    BY <1>15, <1>16, <2>2
<1>18. \A m \in DOMAIN p3 : p3[m].key \in {<<name>> : name \in Named}
  <2>1. /\ <<"device_id">> \in {<<name>> : name \in Named}
        /\ <<"port_id">> \in {<<name>> : name \in Named}
        /\ <<"mode">> \in {<<name>> : name \in Named}
    BY DEF Named
  <2> QED
    BY <1>13, <1>14, <1>15, <2>1
<1>19. CASE a.option = <<>>
  <2>1. serialize(k, a) = t3
    BY <1>1, <1>2, <1>3, <1>19, Zenon DEF serialize
  <2>2. p = p3
    BY <1>6, <2>1
  <2> QED
    BY <1>11, <1>17, <1>18, <1>19, <2>1, <2>2
<1>20. CASE a.option # <<>>
  <2>1. PICK o : o = a.option[1]
    OBVIOUS
  <2>2. serialize(k, a) = Packed(t3, "_option", o)
    BY <1>1, <1>2, <1>3, <1>20, <2>1, Zenon DEF serialize
  <2>3. PICK t4 : t4 = serialize(k, a)
    OBVIOUS
  <2>4. IsText(t4) /\ Adds(p3, p, "_option", o)
    BY <1>6, <1>7, <1>11, <1>20, <2>1, <2>2, <2>3, PropsMore, NamesAndModes
  <2>5. /\ \A name : name # "_option" =>
             \A fallback : Got(p, name, fallback) = Got(p3, name, fallback)
        /\ Given(p3, "_option") = {} => /\ Given(p, "_option") # {}
                                        /\ \A fallback : Got(p, "_option", fallback) = o
        /\ \A m \in DOMAIN p : p[m].key = <<"_option">> \/ (m \in DOMAIN p3 /\ p[m].key = p3[m].key)
    BY <2>4, GivenMore
  <2>6. <<"_option">> \in {<<name>> : name \in Named}
    BY DEF Named
  <2>7. \A m \in DOMAIN p : p[m].key \in {<<name>> : name \in Named}
    BY <1>18, <2>5, <2>6
  <2>8. \A fallback : /\ Got(p, "device_id", fallback) = k.device
                      /\ Got(p, "port_id", fallback) = <<k.port>>
                      /\ Got(p, "mode", fallback) = <<a.mode>>
                      /\ Got(p, "_option", fallback) = a.option[1]
    <3>1. \A fallback : /\ Got(p, "device_id", fallback) = Got(p3, "device_id", fallback)
                        /\ Got(p, "port_id", fallback) = Got(p3, "port_id", fallback)
                        /\ Got(p, "mode", fallback) = Got(p3, "mode", fallback)
      BY <1>16, <2>5
    <3>2. \A fallback : Got(p, "_option", fallback) = a.option[1]
      BY <1>17, <2>1, <2>5
    <3> QED
      BY <1>17, <3>1, <3>2
  <2> QED
    BY <1>17, <1>20, <2>3, <2>4, <2>5, <2>7, <2>8
<1> QED
  BY <1>19, <1>20

(* What is sent is read again, by who expects it.                           *)
LEMMA RoundTrip ==
  ASSUME NEW k, NEW a, IsAssignment(k, a), NEW arg
  PROVE  deserialize(serialize(k, a), arg) =
           IF k.port # arg.port \/ (arg.device # AnyDevice /\ k.device # arg.device)
           THEN Error
           ELSE [ok |-> TRUE, key |-> [port |-> arg.port, device |-> k.device], mode |-> a.mode,
                 option |-> a.option]
<1>1. PICK s : s = serialize(k, a)
  OBVIOUS
<1>2. PICK p : p = unpack_properties(s)
  OBVIOUS
<1>3. /\ \A fallback : /\ Got(p, "device_id", fallback) = k.device
                       /\ Got(p, "port_id", fallback) = <<k.port>>
                       /\ Got(p, "mode", fallback) = <<a.mode>>
                       /\ a.option # <<>> => Got(p, "_option", fallback) = a.option[1]
      /\ Given(p, "_option") = {} <=> a.option = <<>>
      /\ ~ \E m \in DOMAIN p : p[m].key \notin {<<name>> : name \in Named}
  BY <1>1, <1>2, SerializedProps
<1>4. /\ a.mode \in AssignmentModes
      /\ a.option = <<>> \/ a.option = <<a.option[1]>>
  BY DEF IsAssignment
<1>5. <<a.mode>> \in {<<m>> : m \in AssignmentModes} /\ <<a.mode>>[1] = a.mode
  BY <1>4
<1>6. <<k.port>> # <<arg.port>> <=> k.port # arg.port
  BY SMT
<1>7. (IF Given(p, "_option") = {} THEN <<>> ELSE <<Got(p, "_option", <<>>)>>) = a.option
  BY <1>3, <1>4, Zenon
<1>8. PICK o : o = IF Given(p, "_option") = {} THEN <<>> ELSE <<Got(p, "_option", <<>>)>>
  OBVIOUS
<1>9. deserialize(s, arg) =
        IF \/ \E m \in DOMAIN p : p[m].key \notin {<<name>> : name \in Named}
           \/ Got(p, "port_id", <<arg.port>>) # <<arg.port>>
           \/ arg.device # AnyDevice /\ Got(p, "device_id", arg.device) # arg.device
           \/ Got(p, "mode", <<"manual">>) \notin {<<m>> : m \in AssignmentModes}
        THEN Error
        ELSE [ok |-> TRUE, key |-> [port |-> arg.port, device |-> Got(p, "device_id", arg.device)],
              mode |-> Got(p, "mode", <<"manual">>)[1], option |-> o]
  BY <1>2, <1>8, Zenon DEF deserialize
<1>10. CASE k.port # arg.port \/ (arg.device # AnyDevice /\ k.device # arg.device)
  <2>1. deserialize(s, arg) = Error
    BY <1>3, <1>6, <1>9, <1>10, Zenon
  <2> QED
    BY <1>1, <1>10, <2>1
<1>11. CASE ~ (k.port # arg.port \/ (arg.device # AnyDevice /\ k.device # arg.device))
  <2>1. deserialize(s, arg) =
          [ok |-> TRUE, key |-> [port |-> arg.port, device |-> Got(p, "device_id", arg.device)],
           mode |-> Got(p, "mode", <<"manual">>)[1], option |-> o]
    BY <1>3, <1>5, <1>6, <1>9, <1>11, Zenon
  <2>2. /\ Got(p, "device_id", arg.device) = k.device
        /\ Got(p, "mode", <<"manual">>)[1] = a.mode /\ o = a.option
    BY <1>3, <1>5, <1>7, <1>8
  <2> QED
    BY <1>1, <1>11, <2>1, <2>2
<1> QED
  BY <1>10, <1>11

(* What is sent for any device and option: a text that ends with a quote.   *)
SomeText(s) == s \in Seq(Chars) /\ Len(s) > 0 /\ s[Len(s)] = "quote"

(* Whatever is packed ends with a quote.                                    *)
LEMMA LayoutText ==
  ASSUME NEW s, NEW t, NEW n, NEW k, NEW e, Layout(s, t, n, k, e)
  PROVE  SomeText(t)
<1>1. /\ t \in Seq(Chars) /\ e \in Seq(Chars) /\ n \in Nat
      /\ Len(t) = n + 2 + Len(e) /\ t[Len(t)] = "quote"
  BY DEF Layout
<1>2. Len(e) \in Nat
  BY <1>1, LenProperties
<1>3. Len(t) > 0
  BY <1>1, <1>2, SMT
<1> QED
  BY <1>1, <1>3 DEF SomeText

(* Whatever is sent ends with a quote.                                      *)
LEMMA SerializedText ==
  ASSUME NEW k \in DeviceKeys, NEW how \in AssignmentModes, NEW option \in Options
  PROVE  SomeText(serialize(k, [mode |-> how, option |-> option]))
<1> DEFINE a == [mode |-> how, option |-> option]
<1>1. PICK t1 : t1 = pack_property("device_id", k.device)
  OBVIOUS
<1>2. PICK t2 : t2 = Packed(t1, "port_id", <<k.port>>)
  OBVIOUS
<1>3. PICK t3 : t3 = Packed(t2, "mode", <<how>>)
  OBVIOUS
<1>4. /\ k.device \in Seq(Chars) /\ <<k.port>> \in Seq(Chars) /\ <<how>> \in Seq(Chars)
      /\ option # <<>> => option[1] \in Seq(Chars)
  <2>1. k.device \in Seq(Chars) /\ k.port \in Chars \ Separators /\ how \in Chars \ Separators
    BY TextsAssumption, NamesAndModes
  <2>2. ASSUME option # <<>>
        PROVE  option[1] \in Seq(Chars)
    <3>1. option \in Seq(Seq(Chars))
      BY TextsAssumption
    <3>2. 1 \in 1..Len(option)
      BY <2>2, <3>1, EmptySeq, SMT
    <3> QED
      BY <3>1, <3>2, ElementOfSeq
  <2> QED
    BY <2>1, <2>2, NamesAndModes
<1>5. SomeText(t1)
  BY <1>1, <1>4, PackedOne, LayoutText, NamesAndModes
<1>6. SomeText(t2)
  BY <1>2, <1>4, <1>5, PackedTwo, LayoutText, NamesAndModes DEF SomeText
<1>7. SomeText(t3)
  BY <1>3, <1>4, <1>6, PackedTwo, LayoutText, NamesAndModes DEF SomeText
<1>8. a.mode = how /\ a.option = option
  OBVIOUS
<1> HIDE DEF a
<1>9. CASE option = <<>>
  <2>1. serialize(k, a) = t3
    BY <1>1, <1>2, <1>3, <1>8, <1>9, Zenon DEF serialize
  <2> QED
    BY <1>7, <2>1 DEF a
<1>10. CASE option # <<>>
  <2>1. PICK o : o = option[1]
    OBVIOUS
  <2>2. PICK t4 : t4 = Packed(t3, "_option", o)
    OBVIOUS
  <2>3. serialize(k, a) = t4
    BY <1>1, <1>2, <1>3, <1>8, <1>10, <2>1, <2>2, Zenon DEF serialize
  <2>4. SomeText(t4)
    BY <1>4, <1>7, <1>10, <2>1, <2>2, PackedTwo, LayoutText, NamesAndModes DEF SomeText
  <2> QED
    BY <2>3, <2>4 DEF a
<1> QED
  BY <1>9, <1>10

(* No value read from such a text ends with "=": it would have ended before.*)
LEMMA ValueKept ==
  ASSUME NEW s, SomeText(s), NEW m \in Marks(s)
  PROVE  KeptText(ValueAt(s, m))
<1>1. s \in Seq(Chars) /\ Len(s) \in Nat /\ Len(s) > 0 /\ s[Len(s)] = "quote"
  BY LenProperties DEF SomeText
<1>2. /\ \A i \in 1..(Len(s) - 1) : s[i] = "equals" /\ s[i + 1] = "quote" <=> i \in Marks(s)
      /\ Marks(s) \subseteq 1..(Len(s) - 1) /\ m \in Nat
  BY <1>1, SMT DEF Marks
<1>3. PICK after : after = {i \in Marks(s) : m < i}
  OBVIOUS
<1>4. ASSUME NEW b \in Int, b < Len(s), b > m + 1 => s[b + 1] = "quote",
             \A i \in after : b > m + 1 => b < i
      PROVE  KeptText(Unescaped(SubSeq(s, m + 2, b)))
  <2>1. PICK c : c = m + 2
    OBVIOUS
  <2>2. PICK f : f = SubSeq(s, c, b)
    OBVIOUS
  <2>3. /\ f \in Seq(Chars) /\ Len(f) = IF c <= b THEN b - c + 1 ELSE 0
        /\ \A i \in 1..(b - c + 1) : f[i] = s[c + i - 1]
    <3>1. c \in Int /\ \A i \in c..b : i \in 1..Len(s)
      BY <1>1, <1>2, <1>4, <2>1, SMT
    <3>2. \A i \in c..b : s[i] \in Chars
      BY <1>1, <3>1, ElementOfSeq
    <3> QED
      BY <2>2, <3>1, <3>2, SubSeqIs
  <2>4. EndsWell(f)
    <3>1. CASE c <= b
      <4>1. Len(f) \in 1..(b - c + 1) /\ c + Len(f) - 1 = b /\ b > m + 1
        BY <1>2, <2>1, <2>3, <3>1, SMT
      <4>2. f[Len(f)] = s[b]
        BY <2>3, <4>1
      <4>3. s[b] # "equals"
        <5>1. SUFFICES ASSUME s[b] = "equals"
                       PROVE  FALSE
          OBVIOUS
        <5>2. b \in 1..(Len(s) - 1) /\ m < b
          BY <1>1, <1>2, <1>4, <4>1, SMT
        <5>3. b \in after
          BY <1>2, <1>3, <1>4, <4>1, <5>1, <5>2
        <5>4. b < b
          BY <1>4, <4>1, <5>3
        <5> QED
          BY <5>2, <5>4, SMT
      <4> QED
        BY <4>2, <4>3 DEF EndsWell
    <3>2. CASE ~ (c <= b)
      <4>1. f = <<>>
        BY <2>3, <3>2, EmptySeq, SMT
      <4> QED
        BY <4>1 DEF EndsWell
    <3> QED
      BY <3>1, <3>2
  <2>5. UnescapedWell(f)
    BY <2>3, UnescapedRight
  <2>6. KeptText(Unescaped(f))
    BY <2>4, <2>5 DEF UnescapedWell, KeptText, EndsWell
  <2> QED
    BY <2>1, <2>2, <2>6
<1>5. CASE after = {}
  <2>1. ValueAt(s, m) = Unescaped(SubSeq(s, m + 2, Len(s) - 1))
    BY <1>3, <1>5, Zenon DEF ValueAt
  <2>2. /\ Len(s) - 1 \in Int /\ Len(s) - 1 < Len(s) /\ (Len(s) - 1) + 1 = Len(s)
    BY <1>1, SMT
  <2>3. \A i \in after : FALSE
    BY <1>5
  <2> QED
    BY <1>1, <1>4, <2>1, <2>2, <2>3
<1>6. CASE after # {}
  <2>1. PICK j : j = Min(after)
    OBVIOUS
  <2>2. j \in after /\ \A i \in after : j <= i
    <3>1. after \subseteq Nat
      BY <1>1, <1>2, <1>3, SMT
    <3> QED
      BY <1>6, <2>1, <3>1, MinExists
  <2>3. j \in 1..(Len(s) - 1) /\ \A i \in after : i \in Nat
    BY <1>1, <1>2, <1>3, <2>2, SMT
  <2>4. PICK ends : ends = Ends(s, m, j)
    OBVIOUS
  <2>5. ends = {i \in (m + 2)..(j - 2) : s[i] = "quote" /\ s[i + 1] = "space"}
    BY <2>4 DEF Ends
  <2>6. CASE ends = {}
    <3>1. ValueAt(s, m) = Unescaped(SubSeq(s, m + 2, 0))
      BY <1>3, <1>6, <2>1, <2>4, <2>6, Zenon DEF ValueAt
    <3>2. 0 \in Int /\ 0 < Len(s) /\ ~ (0 > m + 1)
      BY <1>1, <1>2, SMT
    <3> QED
      BY <1>4, <3>1, <3>2
  <2>7. CASE ends # {}
    <3>1. PICK x : x = Max(ends)
      OBVIOUS
    <3>2. x \in ends
      <4>1. ends \subseteq 0..Len(s)
        BY <1>1, <1>2, <2>3, <2>5, SMT
      <4> QED
        BY <1>1, <2>7, <3>1, <4>1, MaxExists
    <3>3. x \in (m + 2)..(j - 2) /\ s[x] = "quote"
      BY <2>5, <3>2
    <3>4. ValueAt(s, m) = Unescaped(SubSeq(s, m + 2, x - 1))
      BY <1>3, <1>6, <2>1, <2>4, <2>7, <3>1, Zenon DEF ValueAt
    <3>5. x - 1 \in Int /\ x - 1 < Len(s) /\ (x - 1) + 1 = x /\ \A i \in after : x - 1 < i
      BY <1>1, <1>2, <2>2, <2>3, <3>3, SMT
    <3> QED
      BY <1>4, <3>3, <3>4, <3>5
  <2> QED
    BY <2>6, <2>7
<1> QED
  BY <1>5, <1>6

(* What is got of such a text can be sent again.                            *)
LEMMA GotKept ==
  ASSUME NEW s, SomeText(s), NEW name, NEW fallback, KeptText(fallback)
  PROVE  KeptText(Got(unpack_properties(s), name, fallback))
<1>1. PICK p : p = unpack_properties(s)
  OBVIOUS
<1>2. DOMAIN p = Marks(s) /\ \A m \in Marks(s) : p[m].value = ValueAt(s, m)
  BY <1>1 DEF unpack_properties
<1>3. CASE Given(p, name) = {}
  BY <1>1, <1>3, Zenon DEF Got
<1>4. CASE Given(p, name) # {}
  <2>1. PICK m : m = Max(Given(p, name))
    OBVIOUS
  <2>2. m \in Given(p, name)
    <3>1. Len(s) \in Nat
      BY LenProperties DEF SomeText
    <3>2. Marks(s) \subseteq 0..Len(s)
      BY <3>1, SMT DEF Marks
    <3>3. Given(p, name) \subseteq 0..Len(s)
      BY <1>2, <3>2 DEF Given
    <3> QED
      BY <1>4, <2>1, <3>1, <3>3, MaxExists
  <2>3. m \in Marks(s)
    BY <1>2, <2>2 DEF Given
  <2>4. Got(p, name, fallback) = p[m].value
    BY <1>4, <2>1, Zenon DEF Got
  <2> QED
    BY <1>1, <1>2, <2>3, <2>4, ValueKept
<1> QED
  BY <1>3, <1>4

(* What is read of any such text is an assignment, or an error.             *)
LEMMA ParsedIs ==
  ASSUME NEW s, SomeText(s), NEW arg \in Arguments, NEW r, r = deserialize(s, arg), r.ok
  PROVE  IsAssignment(r.key, [mode |-> r.mode, option |-> r.option])
<1>1. PICK p : p = unpack_properties(s)
  OBVIOUS
<1>2. PICK device : device = Got(p, "device_id", arg.device)
  OBVIOUS
<1>3. PICK how : how = Got(p, "mode", <<"manual">>)
  OBVIOUS
<1>4. PICK o : o = IF Given(p, "_option") = {} THEN <<>> ELSE <<Got(p, "_option", <<>>)>>
  OBVIOUS
<1>5. /\ r = [ok |-> TRUE, key |-> [port |-> arg.port, device |-> device],
             mode |-> how[1], option |-> o]
      /\ how \in {<<m>> : m \in AssignmentModes}
  <2> DEFINE bad == \/ \E m \in DOMAIN p : p[m].key \notin {<<name>> : name \in Named}
                    \/ Got(p, "port_id", <<arg.port>>) # <<arg.port>>
                    \/ arg.device # AnyDevice /\ device # arg.device
                    \/ how \notin {<<m>> : m \in AssignmentModes}
  <2>1. r = IF bad THEN Error
            ELSE [ok |-> TRUE, key |-> [port |-> arg.port, device |-> device],
                  mode |-> how[1], option |-> o]
    BY <1>1, <1>2, <1>3, <1>4, Zenon DEF deserialize
  <2>2. ~ bad
    <3>1. Error.ok = FALSE
      BY DEF Error
    <3> HIDE DEF bad
    <3> QED
      BY <2>1, <3>1
  <2> QED
    BY <2>1, <2>2
<1>6. /\ arg.port \in Chars \ Separators /\ KeptText(arg.device)
  <2>1. /\ arg \in DeviceKeys /\ arg.device # <<>>
        /\ \A i \in DOMAIN arg.device : arg.device[i] \notin Separators
    BY DEF Arguments
  <2>2. arg.port \in Chars \ Separators /\ arg.device \in Seq(Chars)
    BY <2>1, TextsAssumption
  <2>3. Len(arg.device) \in DOMAIN arg.device
    BY <2>1, <2>2, EmptySeq, LenProperties, SMT
  <2>4. arg.device[Len(arg.device)] # "equals"
    BY <2>1, <2>3 DEF Separators
  <2> QED
    BY <2>2, <2>4 DEF KeptText, EndsWell
<1>7. KeptText(device)
  BY <1>1, <1>2, <1>6, GotKept
<1>8. how[1] \in AssignmentModes
  BY <1>5
<1>9. o = <<>> \/ (o = <<o[1]>> /\ KeptText(o[1]))
  <2>1. KeptText(<<>>)
    BY EmptySeq DEF KeptText, EndsWell
  <2>2. KeptText(Got(p, "_option", <<>>))
    BY <1>1, <2>1, GotKept
  <2>3. PICK g : g = Got(p, "_option", <<>>)
    OBVIOUS
  <2>4. <<g>>[1] = g
    OBVIOUS
  <2> QED
    BY <1>4, <2>2, <2>3, <2>4
<1>10. PICK k : k = [port |-> arg.port, device |-> device]
  OBVIOUS
<1>11. PICK a : a = [mode |-> how[1], option |-> o]
  OBVIOUS
<1>12. k.port = arg.port /\ k.device = device /\ a.mode = how[1] /\ a.option = o
  BY <1>10, <1>11
<1>13. IsAssignment(k, a)
  BY <1>6, <1>7, <1>8, <1>9, <1>10, <1>11, <1>12 DEF IsAssignment
<1>14. r.key = k /\ r.mode = how[1] /\ r.option = o
  BY <1>5, <1>10
<1> QED
  BY <1>11, <1>13, <1>14

(* One entry less.                                                          *)
LEMMA DiscardedIs ==
  ASSUME NEW f, NEW k
  PROVE  /\ DOMAIN Discarded(f, k) = DOMAIN f \ {k}
         /\ \A j \in DOMAIN f : j # k => Discarded(f, k)[j] = f[j]
  BY DEF Discarded

(* What is assigned is stored in the same step, as it was asked for.        *)
LEMMA AssignStep ==
  ASSUME AssignmentInv, NEW arg \in Arguments, NEW key \in DeviceKeys,
         NEW how \in AssignmentModes, NEW option \in Options,
         vm_device_assign(arg, key, how, option)
  PROVE  AssignmentInv'
<1>1. PICK a : a = [mode |-> how, option |-> option]
  OBVIOUS
<1>2. a.mode = how /\ a.option = option
  BY <1>1
<1>3. PICK r : r = deserialize(serialize(key, a), arg)
  OBVIOUS
<1>4. PICK b : b = [mode |-> r.mode, option |-> r.option]
  OBVIOUS
<1>5. b.mode = r.mode /\ b.option = r.option
  BY <1>4
<1>6. /\ r.ok /\ assigned' = Joined(assigned, r.key, b) /\ stored' = assigned'
      /\ wanted' = Joined(wanted, key, a) /\ emptied' = emptied \ {r.key}
      /\ unkept' <=> (unkept \/ ~CanBeKept(key, option))
  BY <1>1, <1>3, <1>4, Zenon DEF vm_device_assign
<1>7. IsAssignment(r.key, b)
  <2>1. SomeText(serialize(key, a))
    BY <1>1, SerializedText
  <2> QED
    BY <1>3, <1>4, <1>6, <2>1, ParsedIs
<1>8. /\ DOMAIN assigned' = DOMAIN assigned \cup {r.key} /\ assigned'[r.key] = b
      /\ \A k \in DOMAIN assigned : k # r.key => assigned'[k] = assigned[k]
  BY <1>6 DEF Joined
<1>9. /\ DOMAIN wanted' = DOMAIN wanted \cup {key} /\ wanted'[key] = a
      /\ \A k \in DOMAIN wanted : k # key => wanted'[k] = wanted[k]
  BY <1>6 DEF Joined
<1>10. \A k \in DOMAIN assigned' : IsAssignment(k, assigned'[k])
  <2>1. \A k \in DOMAIN assigned : IsAssignment(k, assigned[k])
    BY DEF AssignmentInv
  <2> QED
    BY <1>7, <1>8, <2>1
<1>11. \A k \in DOMAIN wanted' :
          wanted'[k] = [mode |-> wanted'[k].mode, option |-> wanted'[k].option]
  <2>1. \A k \in DOMAIN wanted : wanted[k] = [mode |-> wanted[k].mode, option |-> wanted[k].option]
    BY DEF AssignmentInv
  <2>2. a = [mode |-> a.mode, option |-> a.option]
    BY <1>1
  <2> QED
    BY <1>9, <2>1, <2>2
<1>12. ASSUME ~ unkept'
       PROVE  /\ DOMAIN assigned' = DOMAIN wanted'
              /\ \A k \in DOMAIN wanted' :
                    /\ k.device # <<>> /\ assigned'[k].mode = wanted'[k].mode
                    /\ k \in emptied' \/ assigned'[k].option = wanted'[k].option
  <2>1. ~ unkept /\ CanBeKept(key, option)
    BY <1>6, <1>12
  <2>2. IsAssignment(key, a)
    <3>1. /\ key = [port |-> key.port, device |-> key.device]
          /\ key.port \in Chars \ Separators /\ key.device \in Seq(Chars)
      BY TextsAssumption
    <3>2. EndsWell(key.device)
      BY <2>1 DEF CanBeKept
    <3>3. CASE option = <<>>
      BY <1>1, <1>2, <3>1, <3>2, <3>3 DEF IsAssignment, KeptText
    <3>4. CASE option # <<>>
      <4>1. option \in Seq(Seq(Chars)) /\ Len(option) <= 1
        BY TextsAssumption
      <4>2. Len(option) = 1
        <5>1. Len(option) \in Nat \ {0}
          BY <3>4, <4>1, EmptySeq
        <5>2. PICK l : l = Len(option)
          OBVIOUS
        <5>3. l \in Nat /\ l # 0 /\ l <= 1
          BY <4>1, <5>1, <5>2
        <5>4. l = 1
          BY <5>3, SMT
        <5> QED
          BY <5>2, <5>4
      <4>3. option = <<option[1]>> /\ option[1] \in Seq(Chars)
        <5>1. PICK o : o = option[1]
          OBVIOUS
        <5>2. o \in Seq(Chars)
          <6>1. 1 \in 1..Len(option)
            BY <4>2, SMT
          <6> QED
            BY <4>1, <5>1, <6>1, ElementOfSeq
        <5>3. <<o>> \in Seq(Seq(Chars)) /\ Len(<<o>>) = 1 /\ <<o>>[1] = o
          BY <5>2, SMT
        <5>4. \A i \in 1..Len(option) : option[i] = <<o>>[i]
          BY <4>2, <5>1, <5>3, SMT
        <5>5. option = <<o>>
          BY <4>1, <4>2, <5>3, <5>4, SeqEqual
        <5> QED
          BY <5>1, <5>2, <5>5
      <4>4. EndsWell(option[1])
        BY <2>1, <3>4 DEF CanBeKept
      <4> QED
        BY <1>1, <1>2, <3>1, <3>2, <4>3, <4>4 DEF IsAssignment, KeptText
    <3> QED
      BY <3>3, <3>4
  <2>3. r = IF key.port # arg.port \/ (arg.device # AnyDevice /\ key.device # arg.device)
            THEN Error
            ELSE [ok |-> TRUE, key |-> [port |-> arg.port, device |-> key.device],
                  mode |-> a.mode, option |-> a.option]
    BY <1>3, <2>2, RoundTrip
  <2>4. ~ (key.port # arg.port \/ (arg.device # AnyDevice /\ key.device # arg.device))
    BY <1>6, <2>3 DEF Error
  <2>5. r = [ok |-> TRUE, key |-> [port |-> key.port, device |-> key.device],
             mode |-> a.mode, option |-> a.option]
    BY <2>3, <2>4
  <2>6. key = [port |-> key.port, device |-> key.device]
    BY TextsAssumption
  <2>7. r.key = key /\ b.mode = a.mode /\ b.option = a.option
    BY <1>5, <2>5, <2>6
  <2>8. /\ DOMAIN assigned = DOMAIN wanted
        /\ \A k \in DOMAIN wanted : /\ k.device # <<>> /\ assigned[k].mode = wanted[k].mode
                                    /\ k \in emptied \/ assigned[k].option = wanted[k].option
    BY <2>1 DEF AssignmentInv, AsWanted
  <2>9. key.device # <<>>
    BY <2>1 DEF CanBeKept
  <2>10. DOMAIN assigned' = DOMAIN wanted'
    BY <1>8, <1>9, <2>7, <2>8
  <2>11. ASSUME NEW k \in DOMAIN wanted'
         PROVE  /\ k.device # <<>> /\ assigned'[k].mode = wanted'[k].mode
                /\ k \in emptied' \/ assigned'[k].option = wanted'[k].option
    <3>1. CASE k = key
      BY <1>8, <1>9, <2>7, <2>9, <3>1
    <3>2. CASE k # key
      BY <1>6, <1>8, <1>9, <2>7, <2>8, <2>11, <3>2
    <3> QED
      BY <3>1, <3>2
  <2> QED
    BY <2>10, <2>11
<1> QED
  BY <1>6, <1>10, <1>11, <1>12 DEF AssignmentInv, AsWanted

(* A new mode changes one entry, in both places.                            *)
LEMMA SetRequiredStep ==
  ASSUME AssignmentInv, NEW key \in Arguments, NEW how \in AssignmentModes,
         vm_device_set_required(key, how)
  PROVE  AssignmentInv'
<1>1. /\ key \in DOMAIN assigned /\ stored' = assigned' /\ emptied' = emptied /\ unkept' = unkept
      /\ assigned' = [assigned EXCEPT ![key].mode = how]
      /\ wanted' = [k \in DOMAIN wanted |-> IF k = key THEN [wanted[k] EXCEPT !.mode = how]
                                           ELSE wanted[k]]
  BY DEF vm_device_set_required
<1>2. /\ \A k \in DOMAIN assigned : IsAssignment(k, assigned[k])
      /\ \A k \in DOMAIN wanted : wanted[k] = [mode |-> wanted[k].mode, option |-> wanted[k].option]
  BY DEF AssignmentInv
<1>3. assigned[key] = [mode |-> assigned[key].mode, option |-> assigned[key].option]
  BY <1>1, <1>2 DEF IsAssignment
<1>4. /\ DOMAIN assigned' = DOMAIN assigned
      /\ assigned'[key] = [mode |-> how, option |-> assigned[key].option]
      /\ \A k \in DOMAIN assigned : k # key => assigned'[k] = assigned[k]
  BY <1>1, <1>3
<1>5. /\ DOMAIN wanted' = DOMAIN wanted
      /\ key \in DOMAIN wanted => wanted'[key] = [mode |-> how, option |-> wanted[key].option]
      /\ \A k \in DOMAIN wanted : k # key => wanted'[k] = wanted[k]
  BY <1>1, <1>2
<1>6. \A k \in DOMAIN assigned' : IsAssignment(k, assigned'[k])
  <2>1. PICK a : a = [mode |-> how, option |-> assigned[key].option]
    OBVIOUS
  <2>2. IsAssignment(key, a)
    BY <1>1, <1>2, <2>1 DEF IsAssignment
  <2> QED
    BY <1>2, <1>4, <2>1, <2>2
<1>7. \A k \in DOMAIN wanted' :
         wanted'[k] = [mode |-> wanted'[k].mode, option |-> wanted'[k].option]
  BY <1>2, <1>5
<1>8. ASSUME ~ unkept
      PROVE  /\ DOMAIN assigned' = DOMAIN wanted'
             /\ \A k \in DOMAIN wanted' :
                   /\ k.device # <<>> /\ assigned'[k].mode = wanted'[k].mode
                   /\ k \in emptied' \/ assigned'[k].option = wanted'[k].option
  <2>1. /\ DOMAIN assigned = DOMAIN wanted
        /\ \A k \in DOMAIN wanted : /\ k.device # <<>> /\ assigned[k].mode = wanted[k].mode
                                    /\ k \in emptied \/ assigned[k].option = wanted[k].option
    BY <1>8 DEF AssignmentInv, AsWanted
  <2>2. ASSUME NEW k \in DOMAIN wanted'
        PROVE  /\ k.device # <<>> /\ assigned'[k].mode = wanted'[k].mode
               /\ k \in emptied' \/ assigned'[k].option = wanted'[k].option
    <3>1. CASE k = key
      <4>1. key \in DOMAIN wanted
        BY <1>5, <2>2, <3>1
      <4>2. assigned'[key].mode = how /\ assigned'[key].option = assigned[key].option
        BY <1>4
      <4>3. wanted'[key].mode = how /\ wanted'[key].option = wanted[key].option
        BY <1>5, <4>1
      <4> QED
        BY <1>1, <2>1, <3>1, <4>1, <4>2, <4>3
    <3>2. CASE k # key
      BY <1>1, <1>4, <1>5, <2>1, <2>2, <3>2
    <3> QED
      BY <3>1, <3>2
  <2> QED
    BY <1>4, <1>5, <2>1, <2>2
<1> QED
  BY <1>1, <1>6, <1>7, <1>8 DEF AssignmentInv, AsWanted

(* An entry is gone from both places.                                       *)
LEMMA UnassignStep ==
  ASSUME AssignmentInv, NEW key \in Arguments, vm_device_unassign(key)
  PROVE  AssignmentInv'
<1>1. /\ assigned' = Discarded(assigned, key) /\ stored' = assigned'
      /\ wanted' = Discarded(wanted, key) /\ emptied' = emptied /\ unkept' = unkept
  BY DEF vm_device_unassign
<1>2. /\ DOMAIN assigned' = DOMAIN assigned \ {key} /\ DOMAIN wanted' = DOMAIN wanted \ {key}
      /\ \A k \in DOMAIN assigned' : assigned'[k] = assigned[k]
      /\ \A k \in DOMAIN wanted' : wanted'[k] = wanted[k]
  <2>1. /\ DOMAIN assigned' = DOMAIN assigned \ {key}
        /\ \A j \in DOMAIN assigned : j # key => assigned'[j] = assigned[j]
    BY <1>1, DiscardedIs, Zenon
  <2>2. /\ DOMAIN wanted' = DOMAIN wanted \ {key}
        /\ \A j \in DOMAIN wanted : j # key => wanted'[j] = wanted[j]
    BY <1>1, DiscardedIs, Zenon
  <2> QED
    BY <2>1, <2>2
<1> QED
  BY <1>1, <1>2 DEF AssignmentInv, AsWanted

(* What qubes.xml gives is what was assigned, but for empty options.        *)
LEMMA LoadStep ==
  ASSUME AssignmentInv, load_extras
  PROVE  AssignmentInv'
<1> DEFINE of(k) == CHOOSE j \in DOMAIN stored : Saved(j) = k
<1>1. /\ \A j, k \in DOMAIN stored : Saved(j) = Saved(k) => j = k
      /\ assigned' = [k \in {Saved(j) : j \in DOMAIN stored} |-> FromXml(stored[of(k)])]
      /\ emptied' = emptied \cup {k \in DOMAIN stored : stored[k].option = << <<>> >>}
      /\ stored' = stored /\ wanted' = wanted /\ unkept' = unkept
  BY Zenon DEF load_extras
<1>2. \A j \in DOMAIN stored : of(Saved(j)) = j
  BY <1>1
<1> HIDE DEF of
<1>3. /\ DOMAIN assigned' = {Saved(j) : j \in DOMAIN stored}
      /\ \A j \in DOMAIN stored : assigned'[Saved(j)] = FromXml(stored[j])
  BY <1>1, <1>2
<1>4. \A j \in DOMAIN stored : IsAssignment(j, stored[j])
  BY DEF AssignmentInv
<1>5. ASSUME NEW k \in DOMAIN assigned'
      PROVE  IsAssignment(k, assigned'[k])
  <2>1. PICK j \in DOMAIN stored : k = Saved(j)
    BY <1>3
  <2>2. PICK a : a = stored[j]
    OBVIOUS
  <2>3. /\ j = [port |-> j.port, device |-> j.device] /\ j.port \in Chars \ Separators
        /\ KeptText(j.device) /\ a = [mode |-> a.mode, option |-> a.option]
        /\ a.mode \in AssignmentModes
        /\ a.option = <<>> \/ (a.option = <<a.option[1]>> /\ KeptText(a.option[1]))
    BY <1>4, <2>2 DEF IsAssignment
  <2>4. KeptText(<<"None">>) /\ KeptText(AnyDevice)
    <3>1. "None" \in Chars \ Separators /\ "*" \in Chars \ Separators
      BY SomeChars, SMT DEF Separators
    <3> QED
      BY <3>1, NamesAndModes DEF KeptText, AnyDevice
  <2>5. /\ k = [port |-> k.port, device |-> k.device]
        /\ k.port \in Chars \ Separators /\ KeptText(k.device)
    BY <2>1, <2>3, <2>4 DEF Saved
  <2>6. PICK b : b = FromXml(a)
    OBVIOUS
  <2>7. /\ b = [mode |-> b.mode, option |-> b.option] /\ b.mode \in AssignmentModes
        /\ b.option = <<>> \/ (b.option = <<b.option[1]>> /\ KeptText(b.option[1]))
    <3>1. CASE a.option = << <<>> >>
      <4>1. b = [mode |-> a.mode, option |-> << <<"None">> >>]
        BY <2>3, <2>6, <3>1 DEF FromXml
      <4>2. << <<"None">> >>[1] = <<"None">>
        OBVIOUS
      <4> QED
        BY <2>3, <2>4, <4>1, <4>2
    <3>2. CASE a.option # << <<>> >>
      BY <2>3, <2>6, <3>2 DEF FromXml
    <3> QED
      BY <3>1, <3>2
  <2>8. assigned'[k] = b
    BY <1>3, <2>1, <2>2, <2>6
  <2> QED
    BY <2>5, <2>7, <2>8 DEF IsAssignment
<1>6. ASSUME ~ unkept
      PROVE  /\ DOMAIN assigned' = DOMAIN wanted
             /\ \A k \in DOMAIN wanted :
                   /\ assigned'[k].mode = wanted[k].mode
                   /\ k \in emptied' \/ assigned'[k].option = wanted[k].option
  <2>1. /\ DOMAIN stored = DOMAIN wanted
        /\ \A k \in DOMAIN wanted : /\ k.device # <<>> /\ stored[k].mode = wanted[k].mode
                                    /\ k \in emptied \/ stored[k].option = wanted[k].option
    BY <1>6 DEF AssignmentInv, AsWanted
  <2>2. \A j \in DOMAIN stored : Saved(j) = j
    BY <2>1 DEF Saved
  <2>3. DOMAIN assigned' = DOMAIN wanted
    BY <1>3, <2>1, <2>2
  <2>4. ASSUME NEW k \in DOMAIN wanted
        PROVE  /\ assigned'[k].mode = wanted[k].mode
               /\ k \in emptied' \/ assigned'[k].option = wanted[k].option
    <3>1. assigned'[k] = FromXml(stored[k]) /\ k \in DOMAIN stored
      BY <1>3, <2>1, <2>2
    <3>2. stored[k] = [mode |-> stored[k].mode, option |-> stored[k].option]
      BY <1>4, <3>1 DEF IsAssignment
    <3>3. CASE stored[k].option = << <<>> >>
      <4>1. k \in emptied'
        BY <1>1, <3>1, <3>3
      <4>2. FromXml(stored[k]).mode = stored[k].mode
        BY <3>2, <3>3 DEF FromXml
      <4> QED
        BY <2>1, <3>1, <4>1, <4>2
    <3>4. CASE stored[k].option # << <<>> >>
      <4>1. assigned'[k] = stored[k]
        BY <3>1, <3>4 DEF FromXml
      <4> QED
        BY <1>1, <2>1, <4>1
    <3> QED
      BY <3>3, <3>4
  <2> QED
    BY <2>3, <2>4
<1>7. ASSUME ~ unkept
      PROVE  /\ DOMAIN stored = DOMAIN wanted
             /\ \A k \in DOMAIN wanted : /\ k.device # <<>> /\ stored[k].mode = wanted[k].mode
                                         /\ k \in emptied' \/ stored[k].option = wanted[k].option
  <2>1. \A k : k \in emptied => k \in emptied'
    BY <1>1
  <2>2. /\ DOMAIN stored = DOMAIN wanted
        /\ \A k \in DOMAIN wanted : /\ k.device # <<>> /\ stored[k].mode = wanted[k].mode
                                    /\ k \in emptied \/ stored[k].option = wanted[k].option
    BY <1>7 DEF AssignmentInv, AsWanted
  <2> QED
    BY <2>1, <2>2, Zenon
<1>8. \A k \in DOMAIN wanted : wanted[k] = [mode |-> wanted[k].mode, option |-> wanted[k].option]
  BY DEF AssignmentInv
<1> QED
  BY <1>1, <1>4, <1>5, <1>6, <1>7, <1>8 DEF AssignmentInv, AsWanted

(* The invariant of assignments: what is assigned, in qubesd and in         *)
(* qubes.xml, can be written and read again, and is what was asked for.     *)
THEOREM AssignmentInvariant == AssignmentSpec => []AssignmentInv
<1>1. AssignmentInit => AssignmentInv
  <2>1. \A k \in DOMAIN <<>> : FALSE
    BY SMT
  <2> QED
    BY <2>1 DEF AssignmentInit, AssignmentInv, AsWanted
<1>2. AssignmentInv /\ [AssignmentNext]_assignmentVars => AssignmentInv'
  <2> SUFFICES ASSUME AssignmentInv, [AssignmentNext]_assignmentVars
               PROVE  AssignmentInv'
    OBVIOUS
  <2>1. ASSUME NEW arg \in Arguments, NEW key \in DeviceKeys, NEW how \in AssignmentModes,
               NEW option \in Options, vm_device_assign(arg, key, how, option)
        PROVE  AssignmentInv'
    BY <2>1, AssignStep
  <2>2. ASSUME NEW key \in Arguments, vm_device_unassign(key)
        PROVE  AssignmentInv'
    BY <2>2, UnassignStep
  <2>3. ASSUME NEW key \in Arguments, NEW how \in AssignmentModes,
               vm_device_set_required(key, how)
        PROVE  AssignmentInv'
    BY <2>3, SetRequiredStep
  <2>4. CASE load_extras
    BY <2>4, LoadStep
  <2>5. CASE UNCHANGED assignmentVars
    BY <2>5 DEF assignmentVars, AssignmentInv, AsWanted
  <2> QED
    BY <2>1, <2>2, <2>3, <2>4, <2>5, Zenon DEF AssignmentNext
<1> QED
  BY <1>1, <1>2, PTL DEF AssignmentSpec

(* Every listing of the devices assigned to a qube says what is assigned,   *)
(* and that is what was asked for, if it could be kept.                     *)
THEOREM ListedAsAssigned == AssignmentSpec => []ListedIsAssigned
<1>1. AssignmentInv => ListedIsAssigned
  <2> SUFFICES ASSUME AssignmentInv
               PROVE  ListedIsAssigned
    OBVIOUS
  <2>1. ASSUME NEW k \in DOMAIN assigned
        PROVE  deserialize(serialize(k, assigned[k]), k) =
                 [ok |-> TRUE, key |-> k, mode |-> assigned[k].mode, option |-> assigned[k].option]
    <3>1. IsAssignment(k, assigned[k])
      BY DEF AssignmentInv
    <3>2. k = [port |-> k.port, device |-> k.device]
      BY <3>1 DEF IsAssignment
    <3>3. deserialize(serialize(k, assigned[k]), k) =
             [ok |-> TRUE, key |-> [port |-> k.port, device |-> k.device],
              mode |-> assigned[k].mode, option |-> assigned[k].option]
      BY <3>1, RoundTrip
    <3> QED
      BY <3>2, <3>3
  <2> QED
    BY <2>1 DEF AssignmentInv, AsWanted, ListedIsAssigned
<1> QED
  BY <1>1, AssignmentInvariant, PTL
=============================================================================
