----------------------------- MODULE Cnt_proofs -----------------------------
(***************************************************************************)
(* Proofs about Cnt, for any processes, channels, values and bounds: type  *)
(* correctness, that a channel counts with the settings of its start, that *)
(* it counts from its start to its stop, and that counts are fresh.        *)
(***************************************************************************)
EXTENDS Cnt, TLAPS, FiniteSetTheorems

\* A record of settings with one of them replaced is a record of settings.
LEMMA FieldType ==
  ASSUME NEW r \in [Channel -> Settings], NEW c \in Channel, NEW f \in Field,
         NEW v \in Value
  PROVE  [r EXCEPT ![c][f] = v] \in [Channel -> Settings]
BY DEF Settings

LEMMA WriteType ==
  ASSUME TypeOK, NEW S \in SUBSET Channel, NEW F \in SUBSET Field
  PROVE  [c \in Channel |-> IF c \in S THEN WriteMode(reg, c, F) ELSE reg[c]]
           \in [Channel -> Settings]
<1>1. ASSUME NEW c \in Channel PROVE WriteMode(reg, c, F) \in Settings
  BY DEF TypeOK, WriteMode, Settings
<1> QED
  BY <1>1 DEF TypeOK

LEMMA TypeInit == Init => TypeOK
<1>1. Defaults \in [Channel -> Settings]
  BY CntAssumption DEF Defaults, Settings
<1> SUFFICES ASSUME Init PROVE TypeOK
  OBVIOUS
<1>2. /\ reg \in [Channel -> Settings] /\ shadow \in [Channel -> Settings]
      /\ requested \in [Channel -> Settings] /\ asked \in [Channel -> Settings]
  BY <1>1 DEF Init
<1>3. /\ pc \in [Process -> Pc] /\ todo \in [Process -> SUBSET Channel]
      /\ begun \in [Process -> Nat] /\ latched \in [Channel -> Nat]
  BY DEF Init, Pc
<1>4. alwaysOn \in BOOLEAN /\ meddled \in BOOLEAN
  BY DEF Init
<1> QED
  BY <1>2, <1>3, <1>4, CntAssumption DEF Init, TypeOK

\* The steps of a process, by what they change.
LEMMA TypeCall == ASSUME TypeOK, NEW p \in Process, Call(p) PROVE TypeOK'
<1>0. Defaults \in [Channel -> Settings]
  BY CntAssumption DEF Defaults, Settings
<1>1. CASE Open(p) \/ Close(p)
  BY <1>1 DEF TypeOK, Open, Close, Idle, device, calls, history
<1>2. ASSUME NEW c \in Channel, NEW f \in Field, NEW v \in Value,
             SetField(p, c, f, v)
      PROVE TypeOK'
  <2>1. shadow' \in [Channel -> Settings] /\ requested' \in [Channel -> Settings]
    BY <1>2, FieldType DEF SetField, TypeOK
  <2> QED
    BY <1>2, <2>1, CntAssumption DEF SetField, TypeOK, device, calls
<1>3. ASSUME NEW c \in Channel, NEW v \in Value, SetCompareReg(p, c, v)
      PROVE TypeOK'
  <2>0. "compare" \in Field /\ asked[c]["compare"] \in Value
    BY DEF Field, TypeOK, Settings
  <2>1. shadow' \in [Channel -> Settings] /\ requested' \in [Channel -> Settings]
    BY <1>3, <2>0, FieldType DEF SetCompareReg, TypeOK
  <2>2. reg' \in [Channel -> Settings]
    BY <1>3, <2>0, FieldType DEF SetCompareReg, TypeOK
  <2>3. asked' \in [Channel -> Settings]
    <3>1. CASE c \in started
      BY <1>3, <2>0, <3>1, FieldType DEF SetCompareReg, TypeOK
    <3>2. CASE c \notin started
      BY <1>3, <2>0, <3>2 DEF SetCompareReg, TypeOK, Settings
    <3> QED
      BY <3>1, <3>2
  <2> QED
    BY <1>3, <2>1, <2>2, <2>3, CntAssumption DEF SetCompareReg, TypeOK, calls
<1>4. ASSUME NEW S \in SUBSET Channel, StartCount(p, S) PROVE TypeOK'
  <2>1. reg' \in [Channel -> Settings]
    BY <1>4, WriteType DEF StartCount
  <2>2. asked' \in [Channel -> Settings]
    BY <1>4 DEF StartCount, TypeOK
  <2> QED
    BY <1>4, <2>1, <2>2 DEF StartCount, TypeOK, calls
<1>5. ASSUME NEW S \in SUBSET Channel, StopCount(p, S) PROVE TypeOK'
  <2>1. reg' \in [Channel -> Settings]
    BY <1>5, WriteType, ModeField \subseteq Field DEF StopCount, Field
  <2>2. asked' \in [Channel -> Settings]
    BY <1>0, <1>5 DEF StopCount, TypeOK
  <2> QED
    BY <1>5, <2>1, <2>2 DEF StopCount, TypeOK, calls
<1>6. ASSUME NEW S \in SUBSET Channel, Preset(p, S) PROVE TypeOK'
  <2>1. Cardinality(S) \in Nat
    BY CntAssumption, FS_Subset, FS_CardinalityType
  <2>2. changes' \in 0..MaxChanges
    BY <1>6, <2>1, CntAssumption DEF Preset, TypeOK
  <2> QED
    BY <1>6, <2>2 DEF Preset, TypeOK, Goto, Pc, device, driver, history
<1>7. ASSUME NEW S \in SUBSET Channel, ReadCount(p, S) PROVE TypeOK'
  BY <1>7 DEF ReadCount, TypeOK, Goto, Pc, device, driver, history
<1>8. CASE InitCount(p)
  BY <1>8 DEF InitCount, TypeOK, Goto, Pc, driver, history
<1>9. CASE SetCountLatch(p)
  BY <1>9 DEF SetCountLatch, TypeOK, Goto, Pc, driver, history
<1>10. CASE ReadLatch(p)
  BY <1>10 DEF ReadLatch, TypeOK, Goto, Pc, device, driver, history
<1> QED
  BY <1>1, <1>2, <1>3, <1>4, <1>5, <1>6, <1>7, <1>8, <1>9, <1>10
     DEF Call, Setter, GetCountDirection, SetMode, SetZPhase, SetFilter,
         SetDirection, SetZLogic, Field, ModeField

LEMMA TypeStep == TypeOK /\ [Next]_vars => TypeOK'
<1> SUFFICES ASSUME TypeOK, [Next]_vars PROVE TypeOK'
  OBVIOUS
<1>0. Defaults \in [Channel -> Settings]
  BY CntAssumption DEF Defaults, Settings
<1>1. CASE Reload
  BY <1>0, <1>1 DEF Reload, TypeOK, device, calls
<1>2. CASE WriteParameter
  BY <1>2, CntAssumption DEF WriteParameter, TypeOK, device, calls
<1>3. ASSUME NEW c \in Channel, Pulse(c) PROVE TypeOK'
  BY <1>3, CntAssumption DEF Pulse, TypeOK, driver, calls, history
<1>4. CASE UNCHANGED vars
  BY <1>4 DEF TypeOK, vars, device, driver, calls, history
<1> QED
  BY <1>1, <1>2, <1>3, <1>4, TypeCall DEF Next

\* Types of the device, the driver's copies, the calls and the history.
THEOREM TypeCorrect == Spec => []TypeOK
BY TypeInit, TypeStep, PTL DEF Spec
-----------------------------------------------------------------------------
(* What a counting channel works with *)

\* The copies hold what was requested, and a started channel's registers what
\* was requested when it was started.
SettingsInv == shadow = requested /\ SettingsAsAtStart

LEMMA SettingsCall ==
  ASSUME TypeOK, SettingsInv, NEW p \in Process, Call(p)
  PROVE  SettingsInv'
<1>1. ASSUME NEW c \in Channel, NEW f \in Field, NEW v \in Value,
             SetField(p, c, f, v)
      PROVE SettingsInv'
  BY <1>1 DEF SetField, SettingsInv, SettingsAsAtStart, device
<1>2. ASSUME NEW c \in Channel, NEW v \in Value, SetCompareReg(p, c, v)
      PROVE SettingsInv'
  <2>1. ASSUME NEW d \in started PROVE reg'[d] = asked'[d]
    <3>0. d \in Channel /\ reg[d] = asked[d]
      BY <2>1 DEF SettingsInv, SettingsAsAtStart, TypeOK
    <3>1. CASE d = c
      BY <1>2, <2>1, <3>0, <3>1 DEF SetCompareReg, TypeOK, Settings
    <3>2. CASE d # c
      BY <1>2, <3>0, <3>2 DEF SetCompareReg, TypeOK
    <3> QED
      BY <3>1, <3>2
  <2> QED
    BY <1>2, <2>1 DEF SetCompareReg, SettingsInv, SettingsAsAtStart
<1>3. ASSUME NEW S \in SUBSET Channel, StartCount(p, S) PROVE SettingsInv'
  <2>1. ASSUME NEW c \in S PROVE reg'[c] = asked'[c]
    <3>1. reg'[c] = WriteMode(reg, c, Field) /\ asked'[c] = requested[c]
      BY <1>3, <2>1 DEF StartCount
    <3>2. shadow[c] = [f \in Field |-> shadow[c][f]]
      BY <2>1 DEF TypeOK, Settings
    <3> QED
      BY <3>1, <3>2 DEF WriteMode, SettingsInv
  <2>2. ASSUME NEW c \in started, c \notin S PROVE reg'[c] = asked'[c]
    BY <1>3, <2>2 DEF StartCount, SettingsInv, SettingsAsAtStart, TypeOK
  <2> QED
    BY <1>3, <2>1, <2>2 DEF StartCount, SettingsInv, SettingsAsAtStart
<1>4. ASSUME NEW S \in SUBSET Channel, StopCount(p, S) PROVE SettingsInv'
  <2>1. ASSUME NEW c \in started' PROVE reg'[c] = asked'[c]
    BY <1>4, <2>1 DEF StopCount, SettingsInv, SettingsAsAtStart, TypeOK
  <2> QED
    BY <1>4, <2>1 DEF StopCount, SettingsInv, SettingsAsAtStart
<1>5. CASE UNCHANGED <<reg, shadow, history>>
  BY <1>5 DEF SettingsInv, SettingsAsAtStart, history
<1>6. ASSUME NEW S \in SUBSET Channel, Preset(p, S) \/ ReadCount(p, S)
      PROVE UNCHANGED <<reg, shadow, history>>
  BY <1>6 DEF Preset, ReadCount, device, driver
<1>7. CASE Open(p) \/ Close(p) \/ InitCount(p) \/ SetCountLatch(p) \/ ReadLatch(p)
  BY <1>5, <1>7
     DEF Open, Close, InitCount, SetCountLatch, ReadLatch, device, driver
<1> QED
  BY <1>1, <1>2, <1>3, <1>4, <1>5, <1>6, <1>7
     DEF Call, Setter, GetCountDirection, SetMode, SetZPhase, SetFilter,
         SetDirection, SetZLogic, Field, ModeField

LEMMA SettingsStep == TypeOK /\ SettingsInv /\ [Next]_vars => SettingsInv'
<1> SUFFICES ASSUME TypeOK, SettingsInv, [Next]_vars PROVE SettingsInv'
  OBVIOUS
<1>1. CASE Reload
  BY <1>1 DEF Reload, SettingsInv, SettingsAsAtStart, device
<1>2. CASE WriteParameter
  BY <1>2 DEF WriteParameter, SettingsInv, SettingsAsAtStart, device
<1>3. ASSUME NEW c \in Channel, Pulse(c) PROVE SettingsInv'
  BY <1>3 DEF Pulse, SettingsInv, SettingsAsAtStart, driver, history
<1>4. CASE UNCHANGED vars
  BY <1>4 DEF SettingsInv, SettingsAsAtStart, vars, device, driver, history
<1> QED
  BY <1>1, <1>2, <1>3, <1>4, SettingsCall DEF Next

\* A channel that was started keeps the settings it was started with.
THEOREM KeepsSettings == Spec => []SettingsAsAtStart
<1>1. Init => SettingsInv
  BY DEF Init, SettingsInv, SettingsAsAtStart
<1>2. SettingsInv => SettingsAsAtStart
  BY DEF SettingsInv
<1> QED
  BY <1>1, <1>2, TypeInit, TypeStep, SettingsStep, PTL DEF Spec

-----------------------------------------------------------------------------
(* Which channels count *)

\* Until the parameter is turned on, start and stop move the reset bit.
CountingInv == meddled = FALSE => alwaysOn = FALSE /\ counting = started

LEMMA CountingStep == TypeOK /\ CountingInv /\ [Next]_vars => CountingInv'
<1> SUFFICES ASSUME TypeOK, CountingInv, [Next]_vars PROVE CountingInv'
  OBVIOUS
<1> USE DEF CountingInv
<1>1. ASSUME NEW p \in Process, NEW S \in SUBSET Channel, StartCount(p, S)
      PROVE CountingInv'
  BY <1>1 DEF StartCount, TypeOK
<1>2. ASSUME NEW p \in Process, NEW S \in SUBSET Channel, StopCount(p, S)
      PROVE CountingInv'
  BY <1>2 DEF StopCount, TypeOK
<1>3. CASE UNCHANGED <<counting, alwaysOn, started, meddled>>
  BY <1>3
<1>4. CASE Reload
  BY <1>4 DEF Reload, device
<1>5. CASE WriteParameter
  BY <1>5 DEF WriteParameter
<1>6. ASSUME NEW p \in Process, Setter(p) \/ \E c \in Channel : GetCountDirection(p, c)
      PROVE UNCHANGED <<counting, alwaysOn, started, meddled>>
  BY <1>6 DEF Setter, GetCountDirection, SetMode, SetZPhase, SetFilter,
         SetDirection, SetZLogic, SetField, SetCompareReg, device
<1>7. ASSUME NEW p \in Process, NEW S \in SUBSET Channel,
             Preset(p, S) \/ ReadCount(p, S)
      PROVE UNCHANGED <<counting, alwaysOn, started, meddled>>
  BY <1>7 DEF Preset, ReadCount, device, driver, history
<1>8. ASSUME NEW p \in Process,
             Open(p) \/ Close(p) \/ InitCount(p) \/ SetCountLatch(p) \/ ReadLatch(p)
      PROVE UNCHANGED <<counting, alwaysOn, started, meddled>>
  BY <1>8 DEF Open, Close, InitCount, SetCountLatch, ReadLatch, device, driver,
              history
<1>9. ASSUME NEW c \in Channel, Pulse(c)
      PROVE UNCHANGED <<counting, alwaysOn, started, meddled>>
  BY <1>9 DEF Pulse, driver, history
<1>10. CASE UNCHANGED vars
  BY <1>10 DEF vars, device, driver, history
<1> QED
  BY <1>1, <1>2, <1>3, <1>4, <1>5, <1>6, <1>7, <1>8, <1>9, <1>10 DEF Next, Call

\* With the parameter left alone, a channel counts from its start to its stop.
THEOREM StartedCounts == Spec => []CountsIffStarted
<1>1. Init => CountingInv
  BY DEF Init, CountingInv
<1>2. TypeOK /\ CountingInv => CountsIffStarted
  BY DEF CountingInv, CountsIffStarted, TypeOK
<1> QED
  BY <1>1, <1>2, TypeInit, TypeStep, CountingStep, PTL DEF Spec

-----------------------------------------------------------------------------
(* What a call reads *)

\* No call began in the future, and what a call has yet to read was latched
\* after it began, by itself or by another process.
FreshInv == (\A p \in Process : begun[p] <= clock) /\ CountIsFresh

LEMMA FreshStep == TypeOK /\ FreshInv /\ [Next]_vars => FreshInv'
<1> SUFFICES ASSUME TypeOK, FreshInv, [Next]_vars PROVE FreshInv'
  OBVIOUS
<1> USE DEF FreshInv, CountIsFresh, TypeOK
<1>1. CASE UNCHANGED <<latched, clock, calls>>
  BY <1>1 DEF calls
<1>2. ASSUME NEW c \in Channel, Pulse(c) PROVE FreshInv'
  BY <1>2 DEF Pulse, calls
<1>3. ASSUME NEW p \in Process, NEW S \in SUBSET Channel, Preset(p, S)
      PROVE FreshInv'
  BY <1>3 DEF Preset, Goto, device
<1>4. ASSUME NEW p \in Process, NEW S \in SUBSET Channel, ReadCount(p, S)
      PROVE FreshInv'
  BY <1>4 DEF ReadCount, Goto, device
<1>5. ASSUME NEW p \in Process, InitCount(p) PROVE FreshInv'
  BY <1>5 DEF InitCount, Goto
<1>6. ASSUME NEW p \in Process, SetCountLatch(p) PROVE FreshInv'
  BY <1>6 DEF SetCountLatch, Goto
<1>7. ASSUME NEW p \in Process, ReadLatch(p) PROVE FreshInv'
  <2>1. PICK c \in todo[p] :
          /\ todo' = [todo EXCEPT ![p] = @ \ {c}]
          /\ pc' = [pc EXCEPT ![p] = IF todo[p] = {c} THEN "idle" ELSE "latched"]
          /\ begun' = [begun EXCEPT ![p] = IF todo[p] = {c} THEN 0 ELSE @]
    BY <1>7 DEF ReadLatch, Goto
  <2>2. pc[p] = "latched" /\ UNCHANGED <<latched, clock>>
    BY <1>7 DEF ReadLatch, device
  <2>3. ASSUME NEW q \in Process
        PROVE /\ begun'[q] <= clock'
              /\ pc'[q] = "latched" =>
                   \A d \in todo'[q] : latched'[d] >= begun'[q]
    <3>1. CASE q # p
      BY <2>1, <2>2, <3>1
    <3>2. CASE q = p /\ todo[p] = {c}
      BY <2>1, <2>2, <3>2
    <3>3. CASE q = p /\ todo[p] # {c}
      BY <2>1, <2>2, <3>3
    <3> QED
      BY <3>1, <3>2, <3>3
  <2> QED
    BY <2>3
<1>8. ASSUME NEW p \in Process, Setter(p) \/ \E c \in Channel : GetCountDirection(p, c)
      PROVE UNCHANGED <<latched, clock, calls>>
  BY <1>8 DEF Setter, GetCountDirection, SetMode, SetZPhase, SetFilter,
         SetDirection, SetZLogic, SetField, SetCompareReg, device, calls
<1>9. ASSUME NEW p \in Process, NEW S \in SUBSET Channel,
             StartCount(p, S) \/ StopCount(p, S)
      PROVE UNCHANGED <<latched, clock, calls>>
  BY <1>9 DEF StartCount, StopCount, calls
<1>10. CASE Reload \/ WriteParameter \/ \E p \in Process : Open(p) \/ Close(p)
  BY <1>10, <1>1 DEF Reload, WriteParameter, Open, Close, device, calls
<1>11. CASE UNCHANGED vars
  BY <1>11 DEF vars, device, calls
<1> QED
  BY <1>1, <1>2, <1>3, <1>4, <1>5, <1>6, <1>7, <1>8, <1>9, <1>10, <1>11
     DEF Next, Call

\* ContecCpsCntReadCount returns no count of before the call, however the
\* processes' latches and reads mix.
THEOREM CountsAreFresh == Spec => []CountIsFresh
<1>1. Init => FreshInv
  BY DEF Init, FreshInv, CountIsFresh
<1>2. FreshInv => CountIsFresh
  BY DEF FreshInv
<1> QED
  BY <1>1, <1>2, TypeInit, TypeStep, FreshStep, PTL DEF Spec
=============================================================================
