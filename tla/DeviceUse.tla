------------------------------ MODULE DeviceUse ------------------------------
(***************************************************************************)
(* A device node in use: programs open and close it as DeviceFile says and, *)
(* while they have it open, call the library of its kind.  The calls go    *)
(* through DioCalls, CntCalls, AioCalls or SsiCalls to the registers, which *)
(* outlive every close, and to the driver's copies, which outlive all but a *)
(* reload of the module, or, for ssi's channel data, a new first open.  A   *)
(* call of the library is one step.                                        *)
(***************************************************************************)
EXTENDS DeviceFile

CONSTANTS
  Boards,    \* names of the products that may be behind the node
  MaxCalls,  \* bound: calls of the library
  DioAsked, CntAsked, AioAsked, SsiAsked   \* what programs may ask of each kind

ASSUME DeviceUseAssumption == MaxCalls \in Nat

VARIABLES
  dev,     \* the device with the driver's copy of its settings
  told,    \* what programs were told of the product, and asked for last
  made     \* calls made so far

use == <<dev, told, made>>
useVars == <<vars, use>>

DioLib == INSTANCE DioCalls
CntLib == INSTANCE CntCalls
AioLib == INSTANCE AioCalls
SsiLib == INSTANCE SsiCalls

ASSUME BoardsAssumption == Boards \subseteq DioLib!Names \cup CntLib!Names \cup AioLib!Names \cup SsiLib!Names

IsDio == dev.name \in DioLib!Names
IsCnt == dev.name \in CntLib!Names
IsAio == dev.name \in AioLib!Names
IsSsi == dev.name \in SsiLib!Names

Booted(name) ==
  CASE name \in DioLib!Names -> DioLib!Boot(name)
    [] name \in CntLib!Names -> CntLib!Boot(name)
    [] name \in AioLib!Names -> AioLib!Boot(name)
    [] name \in SsiLib!Names -> SsiLib!Boot(name)

Facts(d) ==
  CASE d.name \in DioLib!Names -> DioLib!Facts(d)
    [] d.name \in CntLib!Names -> CntLib!Facts(d)
    [] d.name \in AioLib!Names -> AioLib!Facts(d)
    [] d.name \in SsiLib!Names -> SsiLib!Facts(d)

UseInit ==
  /\ Init
  /\ \E name \in Boards : dev = Booted(name)
  /\ told = Facts(dev) /\ made = 0

\* The later of two things said about a key holds.
Over(later, earlier) ==
  [k \in DOMAIN later \cup DOMAIN earlier |-> IF k \in DOMAIN later THEN later[k] ELSE earlier[k]]
Without(function, keys) == [k \in DOMAIN function \ keys |-> function[k]]

Said(settles, forgets) == told' = Over(settles, Without(told, forgets))

\* The structure of an open file has the registers mapped.
Usable(f) ==
  /\ pc[f] = "open" /\ region = priv[f]
  /\ made < MaxCalls /\ made' = made + 1
  /\ UNCHANGED vars

DioCall(f) ==
  /\ IsDio /\ Usable(f)
  /\ \E r \in DioAsked :
       /\ DioLib!Legal(dev, r)
       /\ dev' = DioLib!Do(dev, r)
       /\ Said(DioLib!Settles(r), DioLib!Forgets(r))

CntCall(f) ==
  /\ IsCnt /\ Usable(f)
  /\ \E r \in CntAsked :
       /\ CntLib!Legal(dev, r)
       /\ dev' = CntLib!Do(dev, r)
       /\ Said(CntLib!Settles(dev, r), CntLib!Forgets(r))

AioCall(f) ==
  /\ IsAio /\ Usable(f)
  /\ \E r \in AioAsked :
       /\ AioLib!Legal(dev, r)
       /\ dev' = AioLib!Do(dev, r)
       /\ Said(AioLib!Settles(r), AioLib!Forgets(r))

SsiCall(f) ==
  /\ IsSsi /\ Usable(f)
  /\ \E r \in SsiAsked :
       /\ SsiLib!Legal(dev, r)
       /\ dev' = SsiLib!Do(dev, r)
       /\ Said(SsiLib!Settles(r), SsiLib!Forgets(r))

Keeps(kinds) == told' = Without(told, {k \in DOMAIN told : k[1] \notin kinds})

\* The counter driver and ssi have copies to lose; that of the counter driver
\* is made with the parameter of the module as it is loaded.
CntReload ==
  \E on \in BOOLEAN :
    /\ dev' = CntLib!Reloaded(dev, on)
    /\ Said(CntLib!Loads(on), {k \in DOMAIN told : k[1] \notin CntLib!Kept})
ReloadInUse ==
  /\ Reload
  /\ CASE IsCnt -> CntReload
       [] IsSsi -> dev' = SsiLib!Reloaded(dev) /\ Keeps(SsiLib!KeptByReload)
       [] OTHER -> UNCHANGED <<dev, told>>
  /\ UNCHANGED made

\* A structure of ssi is made with channel data of its own.
ContinueInUse(f) ==
  /\ Continue(f)
  /\ IF IsSsi /\ pc[f] = "mapped" /\ pc'[f] = "open"
     THEN dev' = SsiLib!Opened(dev) /\ Keeps(SsiLib!KeptByOpen)
     ELSE UNCHANGED <<dev, told>>
  /\ UNCHANGED made

ProgramStep(f) == (Open(f) \/ Close(f) \/ LastClose(f)) /\ UNCHANGED use

UseNext ==
  \/ ReloadInUse
  \/ \E f \in Files :
       \/ ProgramStep(f) \/ ContinueInUse(f)
       \/ DioCall(f) \/ CntCall(f) \/ AioCall(f) \/ SsiCall(f)

\* A sleeping call is woken up; nothing makes a program do anything.
UseSpec ==
  /\ UseInit /\ [][UseNext]_useVars
  /\ \A f \in Files : WF_useVars(ContinueInUse(f))

-----------------------------------------------------------------------------
(* Properties *)

Answers(k) ==
  CASE IsDio -> DioLib!Answers(dev, k)
    [] IsCnt -> CntLib!Answers(dev, k)
    [] IsAio -> AioLib!Answers(dev, k)
    [] IsSsi -> SsiLib!Answers(dev, k)

\* Whatever was said last of a setting is what the device does and what every
\* getter of the library answers that works, whichever settings were changed
\* in between that share a register, a byte or a command with it, and however
\* the node was closed, opened and its module reloaded.  A call says something
\* of the settings in its Settles and takes back what is in its Forgets, and
\* leaves all others as they were: so of the counter, selecting the signal of
\* one channel says that the other's is cleared, a start that both are what
\* the device has, a start or stop under reset_flag_always_on that the channel
\* counts if the flag was up, and asking for the direction takes it back.  A
\* setting of the counter that the driver only has a copy of is what a start
\* then sends to the registers.
SettingsAsAsked == \A k \in DOMAIN told : Answers(k) = {told[k]}
=============================================================================
