--------------------------------- MODULE Cnt ---------------------------------
(***************************************************************************)
(* A counter device (CPS-CNT-3202I) as driver/cnt/cpscnt.c and             *)
(* lib/cnt/libcpscnt.c use it.  The driver keeps a copy of every setting of *)
(* every channel; most setters change only the copy, and starting a        *)
(* channel writes the copy to the device.  The copies live as long as the  *)
(* module, the device's registers longer.                                  *)
(*                                                                         *)
(* An ioctl holds dev->lock with the interrupts off and is one step.       *)
(* ContecCpsCntReadCount and ContecCpsCntPreset are several ioctls, between *)
(* which other processes make theirs.  Counts are abstracted to the moment *)
(* they were latched at; the settings' encodings to members of Value.      *)
(***************************************************************************)
EXTENDS Naturals, FiniteSets, TLC

CONSTANTS
  Process,     \* the processes that use the device
  Channel,     \* its channels
  Value,       \* what a setting may be
  Default,     \* what every setting is after the module is loaded
  MaxChanges   \* bound: changes of settings and of counts, taken together

ASSUME CntAssumption ==
  /\ Default \in Value /\ MaxChanges \in Nat
  /\ IsFiniteSet(Channel)

VARIABLES
  (* the device *)
  reg,         \* registers of every channel
  counting,    \* channels whose mode register has the reset bit, which count
  latched,     \* when the count in each channel's latch was taken
  clock,       \* changes of counters so far
  (* the driver *)
  shadow,      \* cpscnt_32xxI_head: the copy of every channel's settings
  reset,       \* channels whose copy of the mode register has the reset bit
  alwaysOn,    \* reset_flag_always_on
  users,       \* processes that have the node open
  (* the processes *)
  pc, todo,    \* the call a process is in, the channels it has still to do
  changes,     \* settings changed and counts changed or to be preset so far
  (* history *)
  requested,   \* last argument of each setter since the module was loaded
  started,     \* channels that were started and not stopped since
  asked,       \* what was requested when a started channel was started
  meddled,     \* alwaysOn has been on
  begun        \* when a call of a process began

device == <<reg, counting, latched, clock>>
driver == <<shadow, reset, alwaysOn, users>>
calls == <<pc, todo, begun>>
history == <<requested, started, asked, meddled>>
vars == <<device, driver, calls, changes, history>>

ModeField == {"op", "dir", "zlogic"}   \* bits of the mode register
Field == ModeField \cup {"zmode", "filter", "compare"}
Settings == [Field -> Value]
Pc == {"idle", "read", "latched", "preset"}

Defaults == [c \in Channel |-> [f \in Field |-> Default]]

Init ==
  /\ reg = Defaults
  /\ counting = {} /\ latched = [c \in Channel |-> 0] /\ clock = 0
  /\ shadow = Defaults /\ reset = {} /\ alwaysOn = FALSE /\ users = {}
  /\ pc = [p \in Process |-> "idle"] /\ todo = [p \in Process |-> {}]
  /\ begun = [p \in Process |-> 0]
  /\ changes = 0
  /\ requested = Defaults /\ started = {} /\ asked = Defaults
  /\ meddled = FALSE

Idle(p) == p \in users /\ pc[p] = "idle"
Goto(p, l) == pc' = [pc EXCEPT ![p] = l]

-----------------------------------------------------------------------------
(* The module and its node *)

\* cpscnt_exit and cpscnt_init: new copies, the device is not touched.  The
\* parameter is that of the module; a load without it turns it off.
Reload ==
  /\ users = {}
  /\ shadow' = Defaults
  /\ reset' = {}
  /\ alwaysOn' = FALSE
  /\ requested' = Defaults
  /\ UNCHANGED <<device, users, calls, changes, started, asked, meddled>>

\* /sys/module/cpscnt/parameters/reset_flag_always_on
WriteParameter ==
  /\ changes < MaxChanges
  /\ changes' = changes + 1
  /\ alwaysOn' = ~alwaysOn
  /\ meddled' = TRUE
  /\ UNCHANGED <<device, shadow, reset, users, calls, requested, started, asked>>

\* The device structure takes the node's copies: opening does not reset them.
Open(p) ==
  /\ p \notin users
  /\ users' = users \cup {p}
  /\ UNCHANGED <<device, shadow, reset, alwaysOn, calls, changes, history>>

Close(p) ==
  /\ Idle(p)
  /\ users' = users \ {p}
  /\ UNCHANGED <<device, shadow, reset, alwaysOn, calls, changes, history>>

-----------------------------------------------------------------------------
(* Settings *)

\* A setter changes the copy only.
SetField(p, c, f, v) ==
  /\ Idle(p) /\ changes < MaxChanges
  /\ changes' = changes + 1
  /\ shadow' = [shadow EXCEPT ![c][f] = v]
  /\ requested' = [requested EXCEPT ![c][f] = v]
  /\ UNCHANGED <<device, reset, alwaysOn, users, calls, started, asked, meddled>>

\* Mutant: the whole mode register is replaced by the operation mode.
SetMode_WholeRegister(p, c, v) ==
  /\ Idle(p) /\ changes < MaxChanges
  /\ changes' = changes + 1
  /\ shadow' = [shadow EXCEPT ![c]["op"] = v, ![c]["dir"] = Default,
                              ![c]["zlogic"] = Default]
  /\ requested' = [requested EXCEPT ![c]["op"] = v]
  /\ UNCHANGED <<device, reset, alwaysOn, users, calls, started, asked, meddled>>

SetMode(p, c, v) == SetField(p, c, "op", v)
SetZPhase(p, c, v) == SetField(p, c, "zmode", v)
SetFilter(p, c, v) == SetField(p, c, "filter", v)
SetDirection(p, c, v) == SetField(p, c, "dir", v)
SetZLogic(p, c, v) == SetField(p, c, "zlogic", v)

\* Reads with the command that sets, its value not initialised.
GetCountDirection(p, c) == \E v \in Value : SetDirection(p, c, v)

\* The only setting that also goes to the device at once.
SetCompareReg(p, c, v) ==
  /\ Idle(p) /\ changes < MaxChanges
  /\ changes' = changes + 1
  /\ shadow' = [shadow EXCEPT ![c]["compare"] = v]
  /\ reg' = [reg EXCEPT ![c]["compare"] = v]
  /\ requested' = [requested EXCEPT ![c]["compare"] = v]
  /\ asked' = [asked EXCEPT ![c]["compare"] = IF c \in started THEN v ELSE @]
  /\ UNCHANGED <<counting, latched, clock, reset, alwaysOn, users, calls,
                 started, meddled>>

-----------------------------------------------------------------------------
(* Start and stop *)

\* The mode register takes its fields and the reset bit from the copy.
WriteMode(r, c, fields) ==
  [f \in Field |-> IF f \in fields THEN shadow[c][f] ELSE r[c][f]]

\* Mutant: the mode register is written before the copy gets the reset bit.
StartCount_ModeFirst(p, S) ==
  /\ Idle(p)
  /\ reset' = IF alwaysOn THEN reset ELSE reset \cup S
  /\ reg' = [c \in Channel |-> IF c \in S THEN WriteMode(reg, c, Field) ELSE reg[c]]
  /\ counting' = {c \in Channel : IF c \in S THEN c \in reset ELSE c \in counting}
  /\ started' = started \cup S
  /\ asked' = [c \in Channel |-> IF c \in S THEN requested[c] ELSE asked[c]]
  /\ UNCHANGED <<latched, clock, shadow, alwaysOn, users, calls, changes,
                 requested, meddled>>

StartCount(p, S) ==
  /\ Idle(p)
  /\ reset' = IF alwaysOn THEN reset ELSE reset \cup S
  /\ reg' = [c \in Channel |-> IF c \in S THEN WriteMode(reg, c, Field) ELSE reg[c]]
  /\ counting' = {c \in Channel : IF c \in S THEN c \in reset' ELSE c \in counting}
  /\ started' = started \cup S
  /\ asked' = [c \in Channel |-> IF c \in S THEN requested[c] ELSE asked[c]]
  /\ UNCHANGED <<latched, clock, shadow, alwaysOn, users, calls, changes,
                 requested, meddled>>

\* Stopping writes the mode register too, with what was set since the start.
StopCount(p, S) ==
  /\ Idle(p)
  /\ reset' = IF alwaysOn THEN reset ELSE reset \ S
  /\ reg' = [c \in Channel |->
               IF c \in S THEN WriteMode(reg, c, ModeField) ELSE reg[c]]
  /\ counting' = {c \in Channel : IF c \in S THEN c \in reset' ELSE c \in counting}
  /\ started' = started \ S
  /\ asked' = [c \in Channel |-> IF c \in S THEN Defaults[c] ELSE asked[c]]
  /\ UNCHANGED <<latched, clock, shadow, alwaysOn, users, calls, changes,
                 requested, meddled>>

-----------------------------------------------------------------------------
(* Counts *)

\* A pulse reaches a counter that counts.
Pulse(c) ==
  /\ c \in counting /\ changes < MaxChanges
  /\ changes' = changes + 1
  /\ clock' = clock + 1
  /\ UNCHANGED <<reg, counting, latched, driver, calls, history>>

\* ContecCpsCntPreset is one ioctl for each channel.
Preset(p, S) ==
  /\ Idle(p) /\ changes + Cardinality(S) <= MaxChanges
  /\ changes' = changes + Cardinality(S)
  /\ Goto(p, "preset")
  /\ todo' = [todo EXCEPT ![p] = S]
  /\ UNCHANGED <<device, driver, begun, history>>

InitCount(p) ==
  /\ pc[p] = "preset"
  /\ \E c \in todo[p] :
       /\ todo' = [todo EXCEPT ![p] = @ \ {c}]
       /\ Goto(p, IF todo[p] = {c} THEN "idle" ELSE "preset")
  /\ clock' = clock + 1
  /\ UNCHANGED <<reg, counting, latched, driver, begun, changes, history>>

\* ContecCpsCntReadCount latches the channels it is asked for, then reads
\* them one by one.
ReadCount(p, S) ==
  /\ Idle(p)
  /\ Goto(p, "read")
  /\ todo' = [todo EXCEPT ![p] = S]
  /\ begun' = [begun EXCEPT ![p] = clock]
  /\ UNCHANGED <<device, driver, changes, history>>

\* Mutant: the mask that is latched lacks a channel.
SetCountLatch_OneShort(p) ==
  /\ pc[p] = "read"
  /\ Goto(p, "latched")
  /\ LET last == CHOOSE c \in todo[p] : TRUE
     IN latched' = [c \in Channel |->
                      IF c \in todo[p] \ {last} THEN clock ELSE latched[c]]
  /\ UNCHANGED <<reg, counting, clock, driver, todo, begun, changes, history>>

SetCountLatch(p) ==
  /\ pc[p] = "read"
  /\ Goto(p, "latched")
  /\ latched' = [c \in Channel |-> IF c \in todo[p] THEN clock ELSE latched[c]]
  /\ UNCHANGED <<reg, counting, clock, driver, todo, begun, changes, history>>

ReadLatch(p) ==
  /\ pc[p] = "latched"
  /\ \E c \in todo[p] :
       /\ todo' = [todo EXCEPT ![p] = @ \ {c}]
       /\ Goto(p, IF todo[p] = {c} THEN "idle" ELSE "latched")
       /\ begun' = [begun EXCEPT ![p] = IF todo[p] = {c} THEN 0 ELSE @]
  /\ UNCHANGED <<device, driver, changes, history>>

-----------------------------------------------------------------------------
Setter(p) ==
  \E c \in Channel, v \in Value :
    \/ SetMode(p, c, v) \/ SetZPhase(p, c, v) \/ SetFilter(p, c, v)
    \/ SetDirection(p, c, v) \/ SetZLogic(p, c, v) \/ SetCompareReg(p, c, v)

Call(p) ==
  \/ Open(p) \/ Close(p)
  \/ Setter(p) \/ \E c \in Channel : GetCountDirection(p, c)
  \/ \E S \in SUBSET Channel \ {{}} :
       StartCount(p, S) \/ StopCount(p, S) \/ Preset(p, S) \/ ReadCount(p, S)
  \/ InitCount(p) \/ SetCountLatch(p) \/ ReadLatch(p)

Next ==
  \/ Reload \/ WriteParameter
  \/ \E c \in Channel : Pulse(c)
  \/ \E p \in Process : Call(p)

Spec == Init /\ [][Next]_vars

Symmetry == Permutations(Process) \cup Permutations(Channel)

-----------------------------------------------------------------------------
\* Types of the device, the driver's copies, the calls and the history.
TypeOK ==
  /\ reg \in [Channel -> Settings] /\ shadow \in [Channel -> Settings]
  /\ counting \subseteq Channel /\ reset \subseteq Channel
  /\ latched \in [Channel -> Nat] /\ clock \in Nat
  /\ alwaysOn \in BOOLEAN /\ users \subseteq Process
  /\ pc \in [Process -> Pc] /\ todo \in [Process -> SUBSET Channel]
  /\ begun \in [Process -> Nat] /\ changes \in 0..MaxChanges
  /\ requested \in [Channel -> Settings] /\ asked \in [Channel -> Settings]
  /\ started \subseteq Channel /\ meddled \in BOOLEAN

\* A started channel works with the settings requested before its start,
\* whatever is set afterwards, whatever is done to other channels and even if
\* the module is reloaded; only its compare register follows at once.
SettingsAsAtStart ==
  \A c \in started : reg[c] = asked[c]

\* As long as the module parameter is left alone, the channels that count are
\* those that were started and not stopped, by whichever process.
CountsIffStarted == ~meddled => counting = started

\* What ContecCpsCntReadCount is about to read was never latched before it was
\* called, although the latches are shared by all processes.
CountIsFresh ==
  \A p \in Process :
    pc[p] = "latched" => \A c \in todo[p] : latched[c] >= begun[p]

===============================================================================
