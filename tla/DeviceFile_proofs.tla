------------------------- MODULE DeviceFile_proofs -------------------------
(***************************************************************************)
(* Proofs about DeviceFile and DeviceUse, for any finite set of files and  *)
(* any set of addresses.                                                   *)
(*                                                                         *)
(* The invariant of a node is a case distinction: one call is bringing the *)
(* device up or down and no file is open; or files are open, all on the    *)
(* one structure that is allocated; or nothing is held at all.  It holds   *)
(* when the first opens of a node are made one at a time and the structure *)
(* is zeroed.                                                              *)
(*                                                                         *)
(* The invariant of its use is that the device is in a state of its kind   *)
(* and answers what was said of it; for each of the four libraries the     *)
(* lemmas say what a call leaves of the registers and of the driver's      *)
(* copies, and so which answers it cannot change.                          *)
(***************************************************************************)
EXTENDS DeviceUse, Sequences, FiniteSetTheorems, TLAPS

\* What the one call under way holds.
CallInv(f) ==
  /\ OpenFiles = {} /\ irqs = {}
  /\ pc[f] = "alloc" => live = {} /\ region = Null /\ ~Known
  /\ pc[f] # "alloc" =>
       /\ priv[f] \in Devs /\ iPrivate = priv[f]
       /\ live = {priv[f]} /\ ref[priv[f]] = 0
  /\ pc[f] = "map" => region = Null
  /\ pc[f] \in {"mapped", "close"} => region = priv[f]
  /\ pc[f] = "close" => opened

\* What the open files share.
OpenInv ==
  /\ opened /\ iPrivate \in Devs
  /\ live = {iPrivate} /\ region = iPrivate /\ irqs \subseteq live
  /\ OnePerNode /\ ref[iPrivate] = Cardinality(OpenFiles)

RestInv == live = {} /\ region = Null /\ irqs = {} /\ ~Known

NodeInv ==
  /\ \A f, g \in Files : InCall(f) /\ InCall(g) => f = g
  /\ \A f \in Files : InCall(f) => CallInv(f)
  /\ OpenFiles # {} => OpenInv
  /\ OpenFiles = {} /\ (\A f \in Files : ~InCall(f)) => RestInv

-----------------------------------------------------------------------------
(* Type correctness, which needs nothing of the users: a call that is past  *)
(* its kzalloc, and an open file, have a structure.                        *)

Held == \A f \in Files : pc[f] \notin {"idle", "alloc"} => priv[f] \in Devs

TypeInv == TypeOK /\ Held

LEMMA FreedTypes ==
  ASSUME TypeInv, NEW f \in Files, Freed(f), UNCHANGED <<opened, ref, irqs>>
  PROVE  TypeInv'
<1>1. TypeOK'
  BY DEF TypeInv, TypeOK, Freed, Released, Goto, Pc
<1>2. Held'
  BY DEF TypeInv, TypeOK, Held, Freed, Goto
<1>3. QED
  BY <1>1, <1>2 DEF TypeInv

LEMMA OpenTypes == ASSUME TypeInv, NEW f \in Files, Open(f) PROVE TypeInv'
<1>1. CASE OpenAgain(f)
  <2>1. TypeOK'
    BY <1>1 DEF TypeInv, TypeOK, OpenAgain, Known, Goto, Pc
  <2>2. Held'
    BY <1>1 DEF TypeInv, TypeOK, Held, OpenAgain, Known, Goto
  <2>3. QED
    BY <2>1, <2>2 DEF TypeInv
<1>2. CASE Refused(f)
  BY <1>2 DEF TypeInv, TypeOK, Held, Refused, vars
<1>3. CASE FirstOpen(f)
  <2>1. TypeOK'
    BY <1>3 DEF TypeInv, TypeOK, FirstOpen, Goto, Pc
  <2>2. Held'
    BY <1>3 DEF TypeInv, TypeOK, Held, FirstOpen, Goto
  <2>3. QED
    BY <2>1, <2>2 DEF TypeInv
<1>4. QED
  BY <1>1, <1>2, <1>3 DEF Open

LEMMA ContinueTypes ==
  ASSUME TypeInv, NEW f \in Files, Continue(f) PROVE TypeInv'
<1>1. CASE NoMemory(f)
  <2>1. TypeOK'
    BY <1>1 DEF TypeInv, TypeOK, NoMemory, Goto, Pc
  <2>2. Held'
    BY <1>1 DEF TypeInv, TypeOK, Held, NoMemory, Goto
  <2>3. QED
    BY <2>1, <2>2 DEF TypeInv
<1>2. ASSUME NEW d \in Devs, Allocated(f, d) PROVE TypeInv'
  <2>1. ref' \in [Devs -> Nat]
    BY <1>2 DEF TypeInv, TypeOK, Allocated
  <2>2. TypeOK'
    BY <1>2, <2>1 DEF TypeInv, TypeOK, Allocated, Goto, Pc
  <2>3. Held'
    BY <1>2 DEF TypeInv, TypeOK, Held, Allocated, Goto
  <2>4. QED
    BY <2>2, <2>3 DEF TypeInv
<1>3. CASE Reserved(f)
  <2>1. TypeOK'
    BY <1>3 DEF TypeInv, TypeOK, Reserved, Goto, Pc
  <2>2. Held'
    BY <1>3 DEF TypeInv, TypeOK, Held, Reserved, Goto
  <2>3. QED
    BY <2>1, <2>2 DEF TypeInv
<1>4. CASE Busy(f)
  BY <1>4, FreedTypes DEF Busy
<1>5. CASE Unusable(f)
  BY <1>5, FreedTypes DEF Unusable
<1>6. CASE Ready(f)
  <2>1. priv[f] \in Devs
    BY <1>6 DEF TypeInv, Held, Ready
  <2>2. TypeOK'
    BY <1>6, <2>1 DEF TypeInv, TypeOK, Ready, Goto, Pc
  <2>3. Held'
    BY <1>6, <2>1 DEF TypeInv, TypeOK, Held, Ready, Goto
  <2>4. QED
    BY <2>2, <2>3 DEF TypeInv
<1>7. CASE Closed(f)
  BY <1>7, FreedTypes DEF Closed
<1>8. QED
  BY <1>1, <1>2, <1>3, <1>4, <1>5, <1>6, <1>7 DEF Continue

LEMMA CloseTypes ==
  ASSUME TypeInv, NEW f \in Files, Close(f) \/ LastClose(f) PROVE TypeInv'
<1>1. CASE Close(f)
  <2>1. ref' \in [Devs -> Nat]
    BY <1>1 DEF TypeInv, TypeOK, Close, Dropped
  <2>2. TypeOK'
    BY <1>1, <2>1 DEF TypeInv, TypeOK, Close, Goto, Pc
  <2>3. Held'
    BY <1>1 DEF TypeInv, TypeOK, Held, Close, Goto
  <2>4. QED
    BY <2>2, <2>3 DEF TypeInv
<1>2. CASE LastClose(f)
  <2>1. TypeOK'
    BY <1>2 DEF TypeInv, TypeOK, LastClose, Goto, Pc
  <2>2. Held'
    BY <1>2 DEF TypeInv, TypeOK, Held, LastClose, Goto
  <2>3. QED
    BY <2>1, <2>2 DEF TypeInv
<1>3. QED
  BY <1>1, <1>2

LEMMA InitTypes == Init => TypeInv
<1>1. ASSUME Init PROVE TypeOK
  <2>1. pc \in [Files -> Pc] /\ priv \in [Files -> Devs \cup {Null}]
    BY <1>1 DEF Init, Pc
  <2>2. ref \in [Devs -> Nat]
    BY <1>1 DEF Init
  <2>3. QED
    BY <1>1, <2>1, <2>2 DEF Init, TypeOK
<1>2. Init => Held
  BY DEF Init, Held
<1>3. QED
  BY <1>1, <1>2 DEF TypeInv

LEMMA StepTypes == TypeInv /\ [Next]_vars => TypeInv'
<1>1. ASSUME TypeInv, Reload PROVE TypeInv'
  BY <1>1 DEF TypeInv, TypeOK, Held, Reload
<1>2. ASSUME TypeInv, UNCHANGED vars PROVE TypeInv'
  BY <1>2 DEF TypeInv, TypeOK, Held, vars
<1>3. QED
  BY <1>1, <1>2, OpenTypes, ContinueTypes, CloseTypes DEF Next

\* The types of the files, the inode and the structures, however the opens
\* and closes of a node overlap.
THEOREM TypeCorrect == Spec => []TypeOK
<1>1. TypeInv => TypeOK
  BY DEF TypeInv
<1>2. QED
  BY <1>1, InitTypes, StepTypes, PTL DEF Spec

-----------------------------------------------------------------------------
(* The case distinction. *)

LEMMA Went ==
  ASSUME TypeInv, NEW f \in Files, NEW l \in Pc, Goto(f, l)
  PROVE  /\ pc'[f] = l /\ \A g \in Files \ {f} : pc'[g] = pc[g]
         /\ l = "open" => OpenFiles' = OpenFiles \cup {f}
         /\ l # "open" => OpenFiles' = OpenFiles \ {f}
BY DEF TypeInv, TypeOK, Goto, OpenFiles

LEMMA Names == \A l \in {"idle", "alloc", "map", "mapped", "open", "close"} :
                 l \in Pc
BY DEF Pc

LEMMA FilesFinite == IsFiniteSet(OpenFiles)
BY FS_Subset, DeviceFileAssumption DEF OpenFiles

\* A call under way is alone, and no file is open.
LEMMA Alone ==
  ASSUME NodeInv, NEW f \in Files, InCall(f)
  PROVE  CallInv(f) /\ \A g \in Files \ {f} : ~InCall(g)
BY DEF NodeInv

LEMMA NobodyCalls ==
  ASSUME NodeInv, OpenFiles # {}
  PROVE  OpenInv /\ \A g \in Files : ~InCall(g)
BY DEF NodeInv, CallInv

\* The three ways to reach a state of the case distinction.
LEMMA ToCall ==
  ASSUME TypeInv, NEW f \in Files,
         NEW l \in {"alloc", "map", "mapped", "close"}, Goto(f, l),
         \A g \in Files \ {f} : ~InCall(g), CallInv(f)'
  PROVE  NodeInv'
<1>1. pc'[f] = l /\ \A g \in Files \ {f} : pc'[g] = pc[g]
  BY Went, Names
<1>2. InCall(f)' /\ \A g \in Files \ {f} : ~InCall(g)'
  BY <1>1 DEF InCall
<1>3. OpenFiles' = {}
  BY DEF CallInv
<1>4. QED
  BY <1>2, <1>3 DEF NodeInv

LEMMA ToOpen ==
  ASSUME TypeInv, NEW f \in Files, NEW l \in {"idle", "open"}, Goto(f, l),
         \A g \in Files \ {f} : ~InCall(g), OpenInv', OpenFiles' # {}
  PROVE  NodeInv'
<1>1. pc'[f] = l /\ \A g \in Files \ {f} : pc'[g] = pc[g]
  BY Went, Names
<1>2. \A g \in Files : ~InCall(g)'
  BY <1>1 DEF InCall
<1>3. QED
  BY <1>2 DEF NodeInv

LEMMA ToRest ==
  ASSUME TypeInv, NodeInv, NEW f \in Files, InCall(f), Goto(f, "idle"), RestInv'
  PROVE  NodeInv'
<1>1. pc'[f] = "idle" /\ \A g \in Files \ {f} : pc'[g] = pc[g]
  BY Went, Names
<1>2. \A g \in Files : ~InCall(g)'
  BY <1>1, Alone DEF InCall
<1>3. OpenFiles' = {}
  BY Went, Names, Alone DEF CallInv
<1>4. QED
  BY <1>2, <1>3 DEF NodeInv

-----------------------------------------------------------------------------
(* The steps of an open. *)

LEMMA OpenSteps ==
  ASSUME Serial, TypeInv, NodeInv, NEW f \in Files, Open(f)
  PROVE  NodeInv'
<1>1. CASE OpenAgain(f)
  <2>1. OpenFiles # {}
    <3>1. SUFFICES ASSUME OpenFiles = {} PROVE FALSE
      OBVIOUS
    <3>2. CASE \E g \in Files : InCall(g)
      BY <1>1, <3>2 DEF NodeInv, CallInv, InCall, OpenAgain
    <3>3. CASE \A g \in Files : ~InCall(g)
      BY <1>1, <3>1, <3>3 DEF NodeInv, RestInv, OpenAgain
    <3>4. QED
      BY <3>2, <3>3
  <2>2. OpenInv /\ \A g \in Files : ~InCall(g)
    BY <2>1, NobodyCalls
  <2>3. f \notin OpenFiles /\ OpenFiles' = OpenFiles \cup {f}
    BY <1>1, Went, Names DEF OpenAgain, OpenFiles
  <2>4. ref'[iPrivate] = Cardinality(OpenFiles')
    <3>1. Cardinality(OpenFiles') = Cardinality(OpenFiles) + 1
      BY <2>3, FilesFinite, FS_AddElement
    <3>2. ref'[iPrivate] = ref[iPrivate] + 1
      BY <1>1, <2>2 DEF OpenAgain, OpenInv, TypeInv, TypeOK
    <3>3. QED
      BY <2>2, <3>1, <3>2 DEF OpenInv
  <2>5. OnePerNode'
    BY <1>1, <2>2, <2>3 DEF OpenAgain, OpenInv, OnePerNode, TypeInv, TypeOK
  <2>6. OpenInv'
    BY <1>1, <2>2, <2>4, <2>5 DEF OpenAgain, OpenInv
  <2>7. QED
    BY <1>1, <2>2, <2>3, <2>6, ToOpen DEF OpenAgain
<1>2. CASE Refused(f)
  BY <1>2 DEF Refused, vars, NodeInv, CallInv, OpenInv, RestInv, InCall,
              OpenFiles, OnePerNode, Known
<1>3. CASE FirstOpen(f)
  <2>1. OpenFiles = {}
    BY <1>3, DeviceFileAssumption DEF FirstOpen, NodeInv, OpenInv, Known
  <2>2. \A g \in Files : ~InCall(g)
    BY <1>3, DeviceFileAssumption
    DEF FirstOpen, NodeInv, CallInv, InCall, Opening, Known
  <2>3. RestInv
    BY <2>1, <2>2 DEF NodeInv
  <2>4. pc'[f] = "alloc" /\ OpenFiles' = {}
    BY <1>3, <2>1, Went, Names DEF FirstOpen
  <2>5. CallInv(f)'
    BY <1>3, <2>3, <2>4 DEF FirstOpen, CallInv, RestInv, Known
  <2>6. QED
    BY <1>3, <2>2, <2>5, ToCall DEF FirstOpen
<1>4. QED
  BY <1>1, <1>2, <1>3 DEF Open

LEMMA FreedStep ==
  ASSUME TypeInv, NodeInv, NEW f \in Files, pc[f] \in {"map", "mapped", "close"},
         Freed(f), UNCHANGED <<opened, ref, irqs>>
  PROVE  NodeInv'
<1>1. InCall(f) /\ CallInv(f)
  BY Alone DEF InCall
<1>2. RestInv'
  BY <1>1 DEF Freed, Released, CallInv, RestInv, Known
<1>3. QED
  BY <1>1, <1>2, ToRest DEF Freed

LEMMA ContinueSteps ==
  ASSUME Zeroed, TypeInv, NodeInv, NEW f \in Files, Continue(f)
  PROVE  NodeInv'
<1>1. CASE NoMemory(f)
  <2>1. InCall(f) /\ CallInv(f)
    BY <1>1, Alone DEF NoMemory, InCall
  <2>2. RestInv'
    BY <1>1, <2>1 DEF NoMemory, CallInv, RestInv, Known
  <2>3. QED
    BY <1>1, <2>1, <2>2, ToRest DEF NoMemory
<1>2. ASSUME NEW d \in Devs, Allocated(f, d) PROVE NodeInv'
  <2>1. CallInv(f) /\ \A g \in Files \ {f} : ~InCall(g)
    BY <1>2, Alone DEF Allocated, InCall
  <2>2. pc'[f] = "map" /\ OpenFiles' = {}
    BY <1>2, <2>1, Went, Names DEF Allocated, CallInv
  <2>3. ref'[d] = 0 /\ priv'[f] = d
    BY <1>2 DEF Allocated, TypeInv, TypeOK
  <2>4. CallInv(f)'
    BY <1>2, <2>1, <2>2, <2>3 DEF Allocated, CallInv
  <2>5. QED
    BY <1>2, <2>1, <2>4, ToCall DEF Allocated
<1>3. CASE Reserved(f)
  <2>1. CallInv(f) /\ \A g \in Files \ {f} : ~InCall(g)
    BY <1>3, Alone DEF Reserved, InCall
  <2>2. pc'[f] = "mapped" /\ OpenFiles' = {}
    BY <1>3, <2>1, Went, Names DEF Reserved, CallInv
  <2>3. CallInv(f)'
    BY <1>3, <2>1, <2>2 DEF Reserved, CallInv
  <2>4. QED
    BY <1>3, <2>1, <2>3, ToCall DEF Reserved
<1>4. CASE Busy(f)
  BY <1>4, FreedStep DEF Busy
<1>5. CASE Unusable(f)
  BY <1>5, FreedStep DEF Unusable
<1>6. CASE Ready(f)
  <2>1. CallInv(f) /\ \A g \in Files \ {f} : ~InCall(g)
    BY <1>6, Alone DEF Ready, InCall
  <2>2. OpenFiles' = {f}
    BY <1>6, <2>1, Went, Names DEF Ready, CallInv
  <2>3. ref'[iPrivate] = 1 /\ Cardinality(OpenFiles') = 1
    BY <1>6, <2>1, <2>2, FS_Singleton
    DEF Ready, CallInv, TypeInv, TypeOK
  <2>4. OpenInv'
    BY <1>6, <2>1, <2>2, <2>3 DEF Ready, CallInv, OpenInv, OnePerNode
  <2>5. QED
    BY <1>6, <2>1, <2>2, <2>4, ToOpen DEF Ready
<1>7. CASE Closed(f)
  BY <1>7, FreedStep DEF Closed
<1>8. QED
  BY <1>1, <1>2, <1>3, <1>4, <1>5, <1>6, <1>7 DEF Continue

-----------------------------------------------------------------------------
(* The steps of a close. *)

LEMMA CloseSteps ==
  ASSUME TypeInv, NodeInv, NEW f \in Files, Close(f) \/ LastClose(f)
  PROVE  NodeInv'
<1>1. f \in OpenFiles
  BY DEF Close, LastClose, OpenFiles
<1>2. OpenInv /\ \A g \in Files : ~InCall(g)
  BY <1>1, NobodyCalls
<1>3. /\ ref[iPrivate] = Cardinality(OpenFiles)
      /\ Cardinality(OpenFiles) \in Nat \ {0}
      /\ Cardinality(OpenFiles \ {f}) = Cardinality(OpenFiles) - 1
      /\ IsFiniteSet(OpenFiles \ {f})
  BY <1>1, <1>2, FilesFinite, FS_CardinalityType, FS_EmptySet, FS_RemoveElement
  DEF OpenInv
<1>4. Dropped(iPrivate) = Cardinality(OpenFiles \ {f})
  BY <1>3 DEF Dropped
<1>5. CASE Close(f)
  <2>1. OpenFiles' = OpenFiles \ {f}
    BY <1>5, Went, Names DEF Close
  <2>2. iPrivate # Null
    BY <1>2, DeviceFileAssumption DEF OpenInv
  <2>3. ref'[iPrivate] = Cardinality(OpenFiles')
    BY <1>2, <1>4, <1>5, <2>1, <2>2 DEF Close, OpenInv, TypeInv, TypeOK
  <2>4. OpenFiles' # {}
    BY <1>3, <1>4, <1>5, <2>1, <2>2, FS_EmptySet DEF Close
  <2>5. OnePerNode'
    BY <1>2, <1>5, <2>1 DEF Close, OpenInv, OnePerNode, TypeInv, TypeOK
  <2>6. OpenInv'
    BY <1>2, <1>5, <2>3, <2>5 DEF Close, OpenInv
  <2>7. QED
    BY <1>2, <1>5, <2>4, <2>6, ToOpen DEF Close
<1>6. CASE LastClose(f)
  <2>1. OpenFiles' = {} /\ pc'[f] = "close"
    BY <1>3, <1>4, <1>6, Went, Names, FS_EmptySet DEF LastClose
  <2>2. priv'[f] = iPrivate /\ ref'[iPrivate] = 0 /\ irqs' = {}
    BY <1>2, <1>6 DEF LastClose, OpenInv, TypeInv, TypeOK
  <2>3. CallInv(f)'
    BY <1>2, <1>6, <2>1, <2>2 DEF LastClose, OpenInv, CallInv
  <2>4. QED
    BY <1>2, <1>6, <2>3, ToCall DEF LastClose
<1>7. QED
  BY <1>5, <1>6

-----------------------------------------------------------------------------
(* What holds in every state. *)

Inv == TypeInv /\ NodeInv

LEMMA NodeInit == Init => NodeInv
<1>1. ASSUME Init PROVE NodeInv
  <2>1. \A f \in Files : pc[f] = "idle"
    BY <1>1 DEF Init
  <2>2. OpenFiles = {} /\ \A f \in Files : ~InCall(f)
    BY <2>1 DEF OpenFiles, InCall
  <2>3. RestInv
    BY <1>1 DEF Init, RestInv, Known
  <2>4. QED
    BY <2>2, <2>3 DEF NodeInv
<1>2. QED
  BY <1>1

LEMMA NodeStep ==
  ASSUME Serial, Zeroed, TypeInv, NodeInv, [Next]_vars
  PROVE  NodeInv'
<1>1. CASE Reload
  <2>1. \A f \in Files : pc[f] = "idle" /\ pc'[f] = "idle"
    BY <1>1 DEF Reload
  <2>2. OpenFiles = {} /\ OpenFiles' = {}
    BY <2>1 DEF OpenFiles
  <2>3. \A f \in Files : ~InCall(f) /\ ~InCall(f)'
    BY <2>1 DEF InCall
  <2>4. RestInv'
    BY <1>1, <2>2, <2>3 DEF Reload, NodeInv, RestInv, Known
  <2>5. QED
    BY <2>2, <2>3, <2>4 DEF NodeInv
<1>2. CASE UNCHANGED vars
  BY <1>2 DEF vars, NodeInv, CallInv, OpenInv, RestInv, InCall, OpenFiles,
              OnePerNode, Known
<1>3. QED
  BY <1>1, <1>2, OpenSteps, ContinueSteps, CloseSteps DEF Next

THEOREM NodeCorrect == ASSUME Serial, Zeroed PROVE Spec => []Inv
<1>1. Init => Inv
  BY InitTypes, NodeInit DEF Inv
<1>2. Inv /\ [Next]_vars => Inv'
  BY StepTypes, NodeStep DEF Inv
<1>3. QED
  BY <1>1, <1>2, PTL DEF Spec

\* The files open on a node share the structure its i_private points to.
THEOREM StructureIsShared == ASSUME Serial, Zeroed PROVE Spec => []OnePerNode
<1>1. Inv => OnePerNode
  BY DEF Inv, NodeInv, OpenInv, OnePerNode
<1>2. QED
  BY <1>1, NodeCorrect, PTL

\* ref counts the open files, so that the last close is recognised.
THEOREM RefIsExact == ASSUME Serial, Zeroed PROVE Spec => []RefCountsFiles
<1>1. Inv => RefCountsFiles
  BY DEF Inv, NodeInv, OpenInv, RefCountsFiles
<1>2. QED
  BY <1>1, NodeCorrect, PTL

\* No file, handler, reservation or call is left with a freed structure.
THEOREM NoDangling == ASSUME Serial, Zeroed PROVE Spec => []NothingDangles
<1>1. ASSUME Inv PROVE NothingDangles
  <2>1. CASE \E f \in Files : InCall(f)
    <3>1. PICK f \in Files : InCall(f)
      BY <2>1
    <3>2. CallInv(f) /\ \A g \in Files \ {f} : ~InCall(g)
      BY <1>1, <3>1, Alone DEF Inv
    <3>3. \A g \in Files \ {f} : pc[g] = "idle"
      BY <1>1, <3>2
      DEF Inv, TypeInv, TypeOK, Pc, InCall, CallInv, OpenFiles
    <3>4. QED
      BY <3>1, <3>2, <3>3 DEF NothingDangles, CallInv, InCall
  <2>2. CASE OpenFiles # {}
    <3>1. OpenInv /\ \A g \in Files : ~InCall(g)
      BY <1>1, <2>2, NobodyCalls DEF Inv
    <3>2. \A g \in Files : pc[g] = "idle" \/ g \in OpenFiles
      BY <1>1, <3>1 DEF Inv, TypeInv, TypeOK, Pc, InCall, OpenFiles
    <3>3. QED
      BY <3>1, <3>2 DEF NothingDangles, OpenInv, OnePerNode
  <2>3. CASE OpenFiles = {} /\ \A f \in Files : ~InCall(f)
    <3>1. RestInv
      BY <1>1, <2>3 DEF Inv, NodeInv
    <3>2. \A g \in Files : pc[g] = "idle"
      BY <1>1, <2>3 DEF Inv, TypeInv, TypeOK, Pc, InCall, OpenFiles
    <3>3. QED
      BY <3>1, <3>2 DEF NothingDangles, RestInv
  <2>4. QED
    BY <2>1, <2>2, <2>3
<1>2. QED
  BY <1>1, NodeCorrect, PTL

\* With every file closed nothing is allocated, reserved or installed.
THEOREM AllGivenBack == ASSUME Serial, Zeroed PROVE Spec => []NothingKept
<1>1. Inv => NothingKept
  BY DEF Inv, NodeInv, RestInv, NothingKept, OpenFiles, InCall
<1>2. QED
  BY <1>1, NodeCorrect, PTL

\* -EFAULT for a known node means that another call is under way.
THEOREM RefusalsPass ==
  ASSUME Serial, Zeroed PROVE Spec => []RefusedOnlyDuringCalls
<1>1. ASSUME Inv, Known, ref[iPrivate] = 0 PROVE \E f \in Files : InCall(f)
  <2>1. OpenFiles = {}
    BY <1>1, FilesFinite, FS_EmptySet DEF Inv, NodeInv, OpenInv
  <2>2. ~RestInv
    BY <1>1 DEF RestInv
  <2>3. QED
    BY <1>1, <2>1, <2>2 DEF Inv, NodeInv
<1>2. Inv => RefusedOnlyDuringCalls
  BY <1>1 DEF RefusedOnlyDuringCalls
<1>3. QED
  BY <1>2, NodeCorrect, PTL

-----------------------------------------------------------------------------
(* DeviceFile implements NodeUse, its fairness aside. *)

LEMMA FreedDetaches ==
  ASSUME Inv, NEW f \in Files, pc[f] \in {"map", "mapped", "close"}, Freed(f)
  PROVE  [Use!Next]_(Use!use)
<1>1. InCall(f) /\ CallInv(f)
  BY Alone DEF InCall, Inv
<1>2. OpenFiles' = OpenFiles
  BY <1>1, Went, Names DEF Freed, Inv, CallInv
<1>3. CASE pc[f] = "map"
  BY <1>1, <1>2, <1>3, DeviceFileAssumption
  DEF Freed, Released, CallInv, Use!use
<1>4. CASE pc[f] # "map"
  <2>1. region # Null /\ region' = Null
    BY <1>1, <1>4, DeviceFileAssumption DEF Freed, Released, CallInv
  <2>2. Use!Detach
    BY <1>1, <1>2, <2>1 DEF Use!Detach, CallInv
  <2>3. QED
    BY <2>2 DEF Use!Next
<1>5. QED
  BY <1>3, <1>4

LEMMA UseStep ==
  ASSUME Serial, Zeroed, Inv, [Next]_vars
  PROVE  [Use!Next]_(Use!use)
<1>1. TypeInv /\ TypeInv' /\ NodeInv /\ NodeInv'
  BY StepTypes, NodeStep DEF Inv
<1>2. ASSUME NEW f \in Files, OpenAgain(f) \/ Ready(f)
      PROVE  Use!Join(f)
  <2>1. f \notin OpenFiles /\ OpenFiles' = OpenFiles \cup {f} /\ region' = region
    BY <1>1, <1>2, Went, Names DEF OpenAgain, Ready, OpenFiles
  <2>2. region' # Null
    BY <1>1, <2>1, DeviceFileAssumption DEF NodeInv, OpenInv
  <2>3. QED
    BY <2>1, <2>2 DEF Use!Join
<1>3. ASSUME NEW f \in Files, Close(f) \/ LastClose(f)
      PROVE  Use!Leave(f)
  <2>1. f \in OpenFiles /\ OpenFiles' = OpenFiles \ {f} /\ region' = region
    BY <1>1, <1>3, Went, Names DEF Close, LastClose, OpenFiles
  <2>2. QED
    BY <2>1 DEF Use!Leave
<1>4. ASSUME NEW f \in Files, Reserved(f) PROVE Use!Attach
  <2>1. OpenFiles' = OpenFiles
    BY <1>1, <1>4, Went, Names DEF Reserved, OpenFiles
  <2>2. region = Null /\ region' # Null
    BY <1>1, <1>4, DeviceFileAssumption DEF Reserved, TypeInv, Held
  <2>3. QED
    BY <2>1, <2>2 DEF Use!Attach
<1>5. ASSUME NEW f \in Files, Busy(f) \/ Unusable(f) \/ Closed(f)
      PROVE  [Use!Next]_(Use!use)
  BY <1>5, FreedDetaches DEF Busy, Unusable, Closed
<1>6. ASSUME NEW f \in Files,
             FirstOpen(f) \/ NoMemory(f) \/ \E d \in Devs : Allocated(f, d)
      PROVE  UNCHANGED Use!use
  <2>1. region' = region /\ OpenFiles' = OpenFiles
    BY <1>1, <1>6, Went, Names DEF FirstOpen, NoMemory, Allocated, OpenFiles
  <2>2. QED
    BY <2>1 DEF Use!use
<1>7. ASSUME UNCHANGED <<pc, region>> PROVE UNCHANGED Use!use
  BY <1>7 DEF Use!use, OpenFiles
<1>8. CASE Reload \/ UNCHANGED vars \/ \E f \in Files : Refused(f)
  BY <1>7, <1>8 DEF Reload, Refused, vars
<1>9. QED
  BY <1>2, <1>3, <1>4, <1>5, <1>6, <1>8
  DEF Next, Open, Continue, Use!Next

\* A device is attached whenever a file is open on its node, and is only
\* detached when none is.
THEOREM KeepsPromise == ASSUME Serial, Zeroed PROVE Spec => Use!Safe
<1>1. Init => Use!Init
  BY DEF Init, Use!Init, OpenFiles
<1>2. Inv /\ [Next]_vars => [Use!Next]_(Use!use)
  BY UseStep
<1>3. QED
  BY <1>1, <1>2, NodeCorrect, PTL DEF Spec, Use!Safe

-----------------------------------------------------------------------------
(* The library of dio. *)

\* States of a dio device, and the keys its answers go by.
DioDev == [name : DioLib!Names, reg : [DioLib!Offsets -> SUBSET DioLib!Bits]]
DioKeys == ({"in", "out"} \X {0, 1}) \cup ({"ports", "name", "SetDigitalFilter", "SetInternalPowerSupply", "notify"} \X {0})

\* A byte and a bit in it from the bit's number.
LEMMA DioIndex ==
  ASSUME NEW p \in {0, 1}, NEW b \in 0..7
  PROVE  /\ 8 * p + b + 1 \in 1..(8 * p + 8) /\ (8 * p + b + 1) - 1 = 8 * p + b
         /\ (8 * p + b) % 8 = b /\ (8 * p + b) \div 8 = p /\ 8 * p + b \notin 0..(8 * p - 1)
<1>1. CASE p = 0
  BY <1>1
<1>2. CASE p = 1
  BY <1>2
<1> QED
  BY <1>1, <1>2

\* What the bits of a byte look like one by one.
DioTerminals(reg, p, base) == [i \in 1..(8 * p + 8) |-> ((i - 1) % 8) \in reg[(i - 1) \div 8 + base]]
DioByteSeen(seen, p) == {n - 8 * p : n \in DioLib!Seen(seen) \ 0..(8 * p - 1)}

LEMMA DioBits ==
  ASSUME NEW p \in {0, 1}, NEW reg \in [DioLib!Offsets -> SUBSET DioLib!Bits], NEW base \in {0, 2}
  PROVE  DioByteSeen(DioTerminals(reg, p, base), p) = reg[p + base]
<1> DEFINE seen == DioTerminals(reg, p, base)
<1>1. p \in Int /\ p + base \in DioLib!Offsets /\ reg[p + base] \subseteq 0..7
  BY DEF DioLib!Offsets, DioLib!Bits
<1>2. DioLib!Seen(seen) = {i - 1 : i \in {j \in 1..(8 * p + 8) : ((j - 1) % 8) \in reg[(j - 1) \div 8 + base]}}
  BY DEF DioLib!Seen, DioTerminals
<1> HIDE DEF seen
<1>3. ASSUME NEW b \in reg[p + base]
      PROVE  b \in {n - 8 * p : n \in DioLib!Seen(seen) \ 0..(8 * p - 1)}
  <2>1. b \in 0..7
    BY <1>1
  <2> DEFINE i == 8 * p + b + 1
  <2>2. i \in 1..(8 * p + 8) /\ i - 1 = 8 * p + b /\ (i - 1) % 8 = b /\ (i - 1) \div 8 = p /\ i - 1 \notin 0..(8 * p - 1)
    BY <2>1, DioIndex
  <2>3. (i - 1) - 8 * p = b
    BY <2>1, <2>2, <1>1
  <2> HIDE DEF i
  <2>4. i - 1 \in DioLib!Seen(seen)
    BY <1>2, <2>2
  <2> QED
    BY <2>2, <2>3, <2>4
<1>4. ASSUME NEW n \in DioLib!Seen(seen) \ 0..(8 * p - 1)
      PROVE  n - 8 * p \in reg[p + base]
  <2>1. PICK j \in 1..(8 * p + 8) : n = j - 1 /\ ((j - 1) % 8) \in reg[(j - 1) \div 8 + base]
    BY <1>2
  <2>2. n \in Int /\ n - 8 * p \in 0..7 /\ n = 8 * p + (n - 8 * p)
    BY <1>1, <2>1
  <2>3. n \div 8 = p /\ n % 8 = n - 8 * p
    BY <2>2, DioIndex
  <2> QED
    BY <2>1, <2>3
<1> QED
  BY <1>3, <1>4 DEF DioByteSeen, seen

\* What the table of products gives a board for ports.
LEMMA DioPorts ==
  ASSUME NEW d \in DioDev
  PROVE  /\ DioLib!InPorts(d) \subseteq {0, 1} /\ DioLib!OutPorts(d) \subseteq {0, 1}
         /\ DioLib!get_dio_devname(d) = d.name
         /\ DioLib!GetMaxPort(d) = DioLib!get_dio_portnum(d)
<1> DEFINE Is(q) == q.Name = d.name
           prod == CHOOSE q \in DioLib!cps_dio_data : Is(q)
<1>1. \E q \in DioLib!cps_dio_data : Is(q)
  BY DEF DioDev, DioLib!Names
<1>2. prod \in DioLib!cps_dio_data /\ Is(prod)
  <2> HIDE DEF Is
  <2> QED  BY <1>1
<1>3. prod.in \in {0, 8, 16} /\ prod.out \in {0, 4, 8, 16}
  <2> HIDE DEF prod
  <2> QED  BY <1>2 DEF DioLib!cps_dio_data
<1>4. DioLib!get_dio_portnum(d) = <<prod.in, prod.out>>
  BY DEF DioLib!get_dio_portnum
<1>5. DioLib!get_dio_devname(d) = prod.Name
  BY DEF DioLib!get_dio_devname
<1>6. DioLib!GetMaxPort(d) = <<prod.in, prod.out>>
  BY <1>4 DEF DioLib!GetMaxPort, DioLib!InfoIoctl
<1> HIDE DEF prod
<1>7. DioLib!InPorts(d) \subseteq {0, 1}
  BY <1>3, <1>6 DEF DioLib!InPorts
<1>8. DioLib!OutPorts(d) \subseteq {0, 1}
  BY <1>3, <1>6 DEF DioLib!OutPorts
<1> QED
  BY <1>2, <1>4, <1>5, <1>6, <1>7, <1>8

\* Every getter of a byte answers what is in its register.
LEMMA DioView ==
  ASSUME NEW d \in DioDev, NEW p \in {0, 1}
  PROVE  /\ DioLib!Answers(d, <<"in", p>>) = {d.reg[p]}
         /\ DioLib!Answers(d, <<"out", p>>) = {d.reg[p + 2]}
<1>1. d.reg \in [DioLib!Offsets -> SUBSET DioLib!Bits] /\ p \in Int
  BY DEF DioDev
<1>2. DioByteSeen(DioLib!InpMultiBit(d, DioLib!Terminals(8 * p + 8)), p) = d.reg[p]
  <2>1. PICK base \in {0, 2} : base = 0
    OBVIOUS
  <2>2. DioLib!InpMultiBit(d, DioLib!Terminals(8 * p + 8)) = DioTerminals(d.reg, p, base)
    BY <2>1 DEF DioTerminals, DioLib!InpMultiBit, DioLib!Terminals, DioLib!InpBit, DioLib!InIoctl, DioLib!read_digital_input, DioLib!inpb, DioLib!Input
  <2>3. DioByteSeen(DioTerminals(d.reg, p, base), p) = d.reg[p + base]
    BY <1>1, DioBits
  <2>4. p + base = p
    BY <1>1, <2>1
  <2> QED
    BY <2>2, <2>3, <2>4
<1>3. DioByteSeen(DioLib!EchoBackMultiBit(d, DioLib!Terminals(8 * p + 8)), p) = d.reg[p + 2]
  <2>1. PICK base \in {0, 2} : base = 2
    OBVIOUS
  <2>2. DioLib!EchoBackMultiBit(d, DioLib!Terminals(8 * p + 8)) = DioTerminals(d.reg, p, base)
    BY <2>1 DEF DioTerminals, DioLib!EchoBackMultiBit, DioLib!Terminals, DioLib!EchoBackBit, DioLib!InIoctl, DioLib!read_digital_output_echo, DioLib!inpb, DioLib!Output
  <2>3. DioByteSeen(DioTerminals(d.reg, p, base), p) = d.reg[p + base]
    BY <1>1, DioBits
  <2> QED
    BY <2>1, <2>2, <2>3
<1>4. DioLib!InpByte(d, p) = d.reg[p] /\ DioLib!EchoBackByte(d, p) = d.reg[p + 2]
  BY DEF DioLib!InpByte, DioLib!EchoBackByte, DioLib!InIoctl, DioLib!read_digital_input,
         DioLib!read_digital_output_echo, DioLib!inpb, DioLib!Input, DioLib!Output
<1>5. DioLib!InpMultiByte(d, <<p>>)[1] = d.reg[p] /\ DioLib!EchoBackMultiByte(d, <<p>>)[1] = d.reg[p + 2]
  BY <1>4 DEF DioLib!InpMultiByte, DioLib!EchoBackMultiByte
<1>6. DioLib!Answers(d, <<"in", p>>) = {d.reg[p]}
  BY <1>2, <1>4, <1>5 DEF DioLib!Answers, DioByteSeen
<1>7. DioLib!Answers(d, <<"out", p>>) = {d.reg[p + 2]}
  BY <1>3, <1>4, <1>5 DEF DioLib!Answers, DioByteSeen
<1> QED
  BY <1>6, <1>7

\* Writing one register.
LEMMA DioOutb ==
  ASSUME NEW d \in DioDev, NEW a \in DioLib!Offsets, NEW v \in SUBSET DioLib!Bits
  PROVE  /\ DioLib!outb(d, a, v) \in DioDev
         /\ DioLib!outb(d, a, v).name = d.name
         /\ DioLib!outb(d, a, v).reg = [d.reg EXCEPT ![a] = v]
BY SMT DEF DioLib!outb, DioDev

\* A word goes to two registers.
LEMMA DioOutw ==
  ASSUME NEW d \in DioDev, NEW a \in {16, 20}, NEW v \in SUBSET (0..15)
  PROVE  /\ DioLib!outw(d, a, v) \in DioDev
         /\ DioLib!outw(d, a, v).name = d.name
         /\ DioLib!outw(d, a, v).reg = [[d.reg EXCEPT ![a] = v \cap (0..7)] EXCEPT ![a + 1] = {b \in 0..7 : b + 8 \in v}]
         /\ DioLib!inpw(DioLib!outw(d, a, v), a) = v
<1> DEFINE e == DioLib!outw(d, a, v)
           low == v \cap (0..7)
           high == {b \in 0..7 : b + 8 \in v}
           one == DioLib!outb(d, a, low)
<1>1. a \in DioLib!Offsets /\ a + 1 \in DioLib!Offsets /\ a # a + 1
  BY DEF DioLib!Offsets
<1>2. low \in SUBSET (0..7) /\ high \in SUBSET (0..7)
  OBVIOUS
<1>3. e = DioLib!outb(one, a + 1, high)
  BY DEF DioLib!outw, DioLib!Bits
<1>4. low \cup {b + 8 : b \in high} = v
  <2>1. ASSUME NEW n \in v
        PROVE  n \in low \cup {b + 8 : b \in high}
    <3>1. CASE n \in 0..7
      BY <3>1
    <3>2. CASE n \notin 0..7
      <4>1. n - 8 \in 0..7 /\ (n - 8) + 8 = n
        BY <3>2
      <4> QED  BY <4>1
    <3> QED  BY <3>1, <3>2
  <2> QED  BY <2>1
<1> HIDE DEF low, high, e
<1>5. e \in DioDev /\ e.name = d.name /\ e.reg = [[d.reg EXCEPT ![a] = low] EXCEPT ![a + 1] = high]
  <2>1. one \in DioDev /\ one.name = d.name /\ one.reg = [d.reg EXCEPT ![a] = low]
    BY <1>1, <1>2, DioOutb DEF DioLib!Bits
  <2> HIDE DEF one
  <2>2. e \in DioDev /\ e.name = one.name /\ e.reg = [one.reg EXCEPT ![a + 1] = high]
    BY <1>1, <1>2, <1>3, <2>1, DioOutb DEF DioLib!Bits
  <2> QED
    BY <2>1, <2>2
<1>6. e.reg[a] = low /\ e.reg[a + 1] = high
  BY <1>1, <1>5 DEF DioDev
<1>7. DioLib!inpw(e, a) = v
  BY <1>4, <1>6 DEF DioLib!inpw
<1> QED
  BY <1>5, <1>7 DEF low, high, e

\* Two ports one after the other.
LEMMA DioMulti ==
  ASSUME NEW d, NEW v, NEW w
  PROVE  DioLib!OutMultiByte(d, <<0, 1>>, <<v, w>>) = DioLib!OutByte(DioLib!OutByte(d, 0, v), 1, w)
<1> DEFINE Ports == <<0, 1>>
           Data == <<v, w>>
           F(f) == [n \in 0..Len(Ports) |-> IF n = 0 THEN d ELSE DioLib!OutByte(f[n - 1], Ports[n], Data[n])]
           one == DioLib!OutByte(d, 0, v)
           two == DioLib!OutByte(one, 1, w)
           g == [n \in 0..2 |-> IF n = 0 THEN d ELSE IF n = 1 THEN one ELSE two]
           after == CHOOSE f : f = F(f)
<1>1. Len(Ports) = 2 /\ Ports[1] = 0 /\ Ports[2] = 1 /\ Data[1] = v /\ Data[2] = w
  OBVIOUS
<1>2. g = F(g)
  <2>1. g[0] = d /\ g[1] = one /\ g[2] = two
    OBVIOUS
  <2>2. F(g) = [n \in 0..2 |-> IF n = 0 THEN d ELSE DioLib!OutByte(g[n - 1], Ports[n], Data[n])]
    BY <1>1
  <2> HIDE DEF Ports, Data
  <2>3. \A n \in 0..2 : F(g)[n] = g[n]
    <3>1. F(g)[0] = d
      BY <2>2
    <3>2. F(g)[1] = one
      BY <2>1, <2>2, <1>1
    <3>3. F(g)[2] = two
      BY <2>1, <2>2, <1>1
    <3> HIDE DEF F, g, one, two
    <3> QED  BY <2>1, <3>1, <3>2, <3>3
  <2> QED
    BY <2>2, <2>3
<1>3. after = F(after)
  <2> HIDE DEF F
  <2> QED  BY <1>2
<1>4. after[2] = two
  <2> HIDE DEF after, Ports, Data
  <2>1. after = [n \in 0..2 |-> IF n = 0 THEN d ELSE DioLib!OutByte(after[n - 1], Ports[n], Data[n])]
    BY <1>1, <1>3
  <2>2. after[0] = d
    BY <2>1
  <2>3. after[1] = DioLib!OutByte(after[0], Ports[1], Data[1])
    BY <2>1
  <2>4. after[2] = DioLib!OutByte(after[1], Ports[2], Data[2])
    BY <2>1
  <2> QED
    BY <1>1, <2>2, <2>3, <2>4
<1>5. DioLib!OutMultiByte(d, Ports, Data) = after[Len(Ports)]
  BY DEF DioLib!OutMultiByte
<1> QED
  BY <1>1, <1>4, <1>5

\* The registers an answer depends on.
DioRegs(c, p) ==
  CASE c = "in" -> {p} [] c = "out" -> {p + 2}
    [] c = "SetDigitalFilter" -> {9} [] c = "SetInternalPowerSupply" -> {8}
    [] c = "notify" -> {16, 17, 20, 21} [] OTHER -> {}

\* An answer whose registers stay is the same.
LEMMA DioSame ==
  ASSUME NEW d \in DioDev, NEW e \in DioDev, e.name = d.name, NEW c, NEW p, <<c, p>> \in DioKeys,
         \A a \in DioRegs(c, p) : e.reg[a] = d.reg[a]
  PROVE  DioLib!Answers(e, <<c, p>>) = DioLib!Answers(d, <<c, p>>)
<1>1. CASE c = "in"
  <2>1. p \in {0, 1} /\ e.reg[p] = d.reg[p]
    BY <1>1 DEF DioKeys, DioRegs
  <2> QED
    BY <1>1, <2>1, DioView
<1>2. CASE c = "out"
  <2>1. p \in {0, 1} /\ e.reg[p + 2] = d.reg[p + 2]
    BY <1>2 DEF DioKeys, DioRegs
  <2>2. DioLib!Answers(e, <<"out", p>>) = {e.reg[p + 2]} /\ DioLib!Answers(d, <<"out", p>>) = {d.reg[p + 2]}
    BY <2>1, DioView
  <2> QED
    BY <1>2, <2>1, <2>2
<1>3. CASE c = "ports"
  <2>1. DioLib!get_dio_portnum(e) = DioLib!get_dio_portnum(d)
    BY DEF DioLib!get_dio_portnum
  <2> QED
    BY <1>3, <2>1, DioPorts DEF DioLib!Answers
<1>4. CASE c = "name"
  <2>1. DioLib!get_dio_devname(e) = DioLib!get_dio_devname(d)
    BY DEF DioLib!get_dio_devname
  <2> QED
    BY <1>4, <2>1 DEF DioLib!Answers, DioLib!QueryDeviceName, DioLib!InfoIoctl
<1>5. CASE c = "SetDigitalFilter"
  <2>1. e.reg[9] = d.reg[9]
    BY <1>5 DEF DioRegs
  <2> QED
    BY <1>5, <2>1 DEF DioLib!Answers, DioLib!GetDigitalFilter, DioLib!InIoctl, DioLib!get_digital_filter, DioLib!inpb, DioLib!Filter
<1>6. CASE c = "SetInternalPowerSupply"
  <2>1. e.reg[8] = d.reg[8]
    BY <1>6 DEF DioRegs
  <2> QED
    BY <1>6, <2>1 DEF DioLib!Answers, DioLib!GetInternalPowerSupply, DioLib!InIoctl, DioLib!get_internal_power_supply, DioLib!inpb, DioLib!Power
<1>7. CASE c = "notify"
  <2>1. \A a \in {16, 17, 20, 21} : e.reg[a] = d.reg[a]
    BY <1>7 DEF DioRegs
  <2>2. DioLib!inpw(e, 16) = DioLib!inpw(d, 16) /\ DioLib!inpw(e, 20) = DioLib!inpw(d, 20)
    BY <2>1 DEF DioLib!inpw
  <2> QED
    BY <1>7, <2>2 DEF DioLib!Answers, DioLib!get_interrupt_edge, DioLib!Edge, DioLib!Mask
<1> QED
  BY <1>1, <1>2, <1>3, <1>4, <1>5, <1>6, <1>7 DEF DioKeys

\* A call gives what it settles, and leaves everything else as it was.
LEMMA DioStep ==
  ASSUME NEW d \in DioDev, NEW r, DioLib!Legal(d, r)
  PROVE  /\ DioLib!Do(d, r) \in DioDev /\ DioLib!Do(d, r).name = d.name
         /\ DOMAIN DioLib!Settles(r) \subseteq DioKeys
         /\ \A k \in DOMAIN DioLib!Settles(r) : DioLib!Answers(DioLib!Do(d, r), k) = {DioLib!Settles(r)[k]}
         /\ \A k \in DioKeys \ DOMAIN DioLib!Settles(r) : DioLib!Answers(DioLib!Do(d, r), k) = DioLib!Answers(d, k)
<1> DEFINE e == DioLib!Do(d, r)
           s == DioLib!Settles(r)
           Goal == /\ e \in DioDev /\ e.name = d.name
                   /\ DOMAIN s \subseteq DioKeys
                   /\ \A k \in DOMAIN s : DioLib!Answers(e, k) = {s[k]}
                   /\ \A k \in DioKeys \ DOMAIN s : DioLib!Answers(e, k) = DioLib!Answers(d, k)
<1> SUFFICES Goal
  OBVIOUS
<1>0. ASSUME e \in DioDev, e.name = d.name, NEW A \in SUBSET DioLib!Offsets,
             \A a \in DioLib!Offsets \ A : e.reg[a] = d.reg[a], 
             \A c, p : <<c, p>> \in DioKeys \ DOMAIN s => DioRegs(c, p) \cap A = {}
      PROVE  \A k \in DioKeys \ DOMAIN s : DioLib!Answers(e, k) = DioLib!Answers(d, k)
  <2> HIDE DEF e, s
  <2> TAKE k \in DioKeys \ DOMAIN s
  <2>1. PICK c, p : k = <<c, p>>
    BY DEF DioKeys
  <2>2. DioRegs(c, p) \subseteq DioLib!Offsets
    BY <2>1 DEF DioKeys, DioRegs, DioLib!Offsets
  <2>3. \A a \in DioRegs(c, p) : e.reg[a] = d.reg[a]
    BY <1>0, <2>1, <2>2
  <2> QED
    BY <1>0, <2>1, <2>3, DioSame
<1>1. CASE r.call = "OutByte" /\ r.ch \in DioLib!OutPorts(d) /\ r.val \subseteq DioLib!Bits
  <2>1. r.ch \in {0, 1} /\ r.ch + 2 \in DioLib!Offsets
    BY <1>1, DioPorts DEF DioLib!Offsets
  <2>2. e = DioLib!outb(d, r.ch + 2, r.val)
    BY <1>1 DEF DioLib!Do, DioLib!OutByte, DioLib!OutIoctl, DioLib!write_digital_output, DioLib!Output
  <2>3. s = [k \in {<<"out", r.ch>>} |-> r.val]
    BY <1>1 DEF DioLib!Settles
  <2> HIDE DEF e, s
  <2>4. e \in DioDev /\ e.name = d.name /\ e.reg = [d.reg EXCEPT ![r.ch + 2] = r.val]
    BY <1>1, <2>1, <2>2, DioOutb
  <2>5. e.reg[r.ch + 2] = r.val /\ \A a \in DioLib!Offsets \ {r.ch + 2} : e.reg[a] = d.reg[a]
    BY <2>1, <2>4 DEF DioDev
  <2>6. DOMAIN s = {<<"out", r.ch>>} /\ s[<<"out", r.ch>>] = r.val /\ DOMAIN s \subseteq DioKeys
    BY <2>1, <2>3 DEF DioKeys
  <2>7. DioLib!Answers(e, <<"out", r.ch>>) = {r.val}
    <3>1. DioLib!Answers(e, <<"out", r.ch>>) = {e.reg[r.ch + 2]}
      BY <2>1, <2>4, DioView
    <3> QED  BY <2>5, <3>1
  <2>8. \A c, p : <<c, p>> \in DioKeys \ DOMAIN s => DioRegs(c, p) \cap {r.ch + 2} = {}
    BY <2>1, <2>6 DEF DioKeys, DioRegs
  <2>9. \A k \in DioKeys \ DOMAIN s : DioLib!Answers(e, k) = DioLib!Answers(d, k)
    BY <2>1, <2>4, <2>5, <2>8, <1>0
  <2> QED
    BY <2>4, <2>6, <2>7, <2>9
<1>2. CASE /\ r.call = "OutMultiByte" /\ DioLib!OutPorts(d) = {0, 1}
           /\ r.val \subseteq DioLib!Bits /\ r.next \subseteq DioLib!Bits
  <2> DEFINE one == DioLib!outb(d, 2, r.val)
  <2>1. e = DioLib!outb(one, 3, r.next)
    <3>1. e = DioLib!OutMultiByte(d, <<0, 1>>, <<r.val, r.next>>)
      BY <1>2 DEF DioLib!Do
    <3>2. e = DioLib!OutByte(DioLib!OutByte(d, 0, r.val), 1, r.next)
      BY <3>1, DioMulti
    <3> QED
      BY <3>2 DEF DioLib!OutByte, DioLib!OutIoctl, DioLib!write_digital_output, DioLib!Output
  <2>2. 2 \in DioLib!Offsets /\ 3 \in DioLib!Offsets
    BY DEF DioLib!Offsets
  <2>3. s = [k \in {<<"out", 0>>, <<"out", 1>>} |-> IF k[2] = 0 THEN r.val ELSE r.next]
    BY <1>2 DEF DioLib!Settles
  <2> HIDE DEF e, s
  <2>4. one \in DioDev /\ one.name = d.name /\ one.reg = [d.reg EXCEPT ![2] = r.val]
    BY <1>2, <2>2, DioOutb
  <2> HIDE DEF one
  <2>5. e \in DioDev /\ e.name = one.name /\ e.reg = [one.reg EXCEPT ![3] = r.next]
    BY <1>2, <2>1, <2>2, <2>4, DioOutb
  <2>6. e.reg[2] = r.val /\ e.reg[3] = r.next /\ \A a \in DioLib!Offsets \ {2, 3} : e.reg[a] = d.reg[a]
    BY <2>2, <2>4, <2>5 DEF DioDev
  <2>7. DOMAIN s = {<<"out", 0>>, <<"out", 1>>} /\ s[<<"out", 0>>] = r.val /\ s[<<"out", 1>>] = r.next /\ DOMAIN s \subseteq DioKeys
    BY <2>3 DEF DioKeys
  <2>8. DioLib!Answers(e, <<"out", 0>>) = {r.val} /\ DioLib!Answers(e, <<"out", 1>>) = {r.next}
    <3>1. DioLib!Answers(e, <<"out", 0>>) = {e.reg[0 + 2]} /\ DioLib!Answers(e, <<"out", 1>>) = {e.reg[1 + 2]}
      BY <2>5, DioView
    <3> QED  BY <2>6, <3>1
  <2>9. \A c, p : <<c, p>> \in DioKeys \ DOMAIN s => DioRegs(c, p) \cap {2, 3} = {}
    BY <2>7 DEF DioKeys, DioRegs
  <2>10. {2, 3} \in SUBSET DioLib!Offsets
    BY <2>2
  <2>11. \A k \in DioKeys \ DOMAIN s : DioLib!Answers(e, k) = DioLib!Answers(d, k)
    BY <2>4, <2>5, <2>6, <2>9, <2>10, <1>0
  <2> QED
    BY <2>4, <2>5, <2>7, <2>8, <2>11
<1>3. CASE r.call = "SetDigitalFilter" /\ r.ch = 0 /\ r.val \subseteq DioLib!Bits
  <2> DEFINE v == r.val \cap 0..5
  <2>1. v \in SUBSET DioLib!Bits /\ 9 \in DioLib!Offsets
    BY <1>3 DEF DioLib!Offsets, DioLib!Bits
  <2>2. e = DioLib!outb(d, 9, v)
    BY <1>3 DEF DioLib!Do, DioLib!SetDigitalFilter, DioLib!OutIoctl, DioLib!set_digital_filter, DioLib!Filter
  <2>3. s = [k \in {<<"SetDigitalFilter", 0>>} |-> v]
    BY <1>3 DEF DioLib!Settles
  <2> HIDE DEF e, s, v
  <2>4. e \in DioDev /\ e.name = d.name /\ e.reg = [d.reg EXCEPT ![9] = v]
    BY <2>1, <2>2, DioOutb
  <2>5. e.reg[9] = v /\ \A a \in DioLib!Offsets \ {9} : e.reg[a] = d.reg[a]
    BY <2>1, <2>4 DEF DioDev
  <2>6. DOMAIN s = {<<"SetDigitalFilter", 0>>} /\ s[<<"SetDigitalFilter", 0>>] = v /\ DOMAIN s \subseteq DioKeys
    BY <2>3 DEF DioKeys
  <2>7. DioLib!Answers(e, <<"SetDigitalFilter", 0>>) = {v}
    BY <2>5 DEF DioLib!Answers, DioLib!GetDigitalFilter, DioLib!InIoctl, DioLib!get_digital_filter, DioLib!inpb, DioLib!Filter
  <2>8. \A c, p : <<c, p>> \in DioKeys \ DOMAIN s => DioRegs(c, p) \cap {9} = {}
    BY <2>6 DEF DioKeys, DioRegs
  <2>9. \A k \in DioKeys \ DOMAIN s : DioLib!Answers(e, k) = DioLib!Answers(d, k)
    BY <2>1, <2>4, <2>5, <2>8, <1>0
  <2> QED
    BY <2>4, <2>6, <2>7, <2>9
<1>4. CASE r.call = "SetInternalPowerSupply" /\ r.ch = 0 /\ r.val \subseteq DioLib!Bits
  <2> DEFINE v == r.val \cap {0}
  <2>1. v \in SUBSET DioLib!Bits /\ 8 \in DioLib!Offsets
    BY <1>4 DEF DioLib!Offsets, DioLib!Bits
  <2>2. e = DioLib!outb(d, 8, v)
    BY <1>4 DEF DioLib!Do, DioLib!SetInternalPowerSupply, DioLib!OutIoctl, DioLib!set_internal_power_supply, DioLib!Power
  <2>3. s = [k \in {<<"SetInternalPowerSupply", 0>>} |-> v]
    BY <1>4 DEF DioLib!Settles
  <2> HIDE DEF e, s, v
  <2>4. e \in DioDev /\ e.name = d.name /\ e.reg = [d.reg EXCEPT ![8] = v]
    BY <2>1, <2>2, DioOutb
  <2>5. e.reg[8] = v /\ \A a \in DioLib!Offsets \ {8} : e.reg[a] = d.reg[a]
    BY <2>1, <2>4 DEF DioDev
  <2>6. DOMAIN s = {<<"SetInternalPowerSupply", 0>>} /\ s[<<"SetInternalPowerSupply", 0>>] = v /\ DOMAIN s \subseteq DioKeys
    BY <2>3 DEF DioKeys
  <2>7. DioLib!Answers(e, <<"SetInternalPowerSupply", 0>>) = {v}
    BY <2>5 DEF DioLib!Answers, DioLib!GetInternalPowerSupply, DioLib!InIoctl, DioLib!get_internal_power_supply, DioLib!inpb, DioLib!Power
  <2>8. \A c, p : <<c, p>> \in DioKeys \ DOMAIN s => DioRegs(c, p) \cap {8} = {}
    BY <2>6 DEF DioKeys, DioRegs
  <2>9. \A k \in DioKeys \ DOMAIN s : DioLib!Answers(e, k) = DioLib!Answers(d, k)
    BY <2>1, <2>4, <2>5, <2>8, <1>0
  <2> QED
    BY <2>4, <2>6, <2>7, <2>9
<1>5. CASE r.call = "NotifyInterrupt" /\ r.ch \in 0..15 /\ r.val \in {{0}, {}}
  <2> DEFINE mask == (0..15) \ {r.ch}
             edge == {b + r.ch : b \in r.val}
             one == DioLib!outw(d, 16, mask)
  <2>1. mask \in SUBSET (0..15) /\ edge \in SUBSET (0..15)
    BY <1>5
  <2>2. e = DioLib!outw(one, 20, edge)
    BY <1>5 DEF DioLib!Do, DioLib!NotifyInterrupt, DioLib!OutIoctl, DioLib!write_interrupt_mask,
                DioLib!set_interrupt_edge, DioLib!Mask, DioLib!Edge
  <2>3. s = [k \in {<<"notify", 0>>} |-> <<r.ch, r.val>>]
    BY <1>5 DEF DioLib!Settles
  <2>4. (r.ch \in edge) <=> (r.val = {0})
    BY <1>5
  <2>5. (0..15) \ mask = {r.ch}
    BY <1>5
  <2> HIDE DEF e, s, mask, edge
  <2>6. /\ one \in DioDev /\ one.name = d.name /\ DioLib!inpw(one, 16) = mask
        /\ one.reg = [[d.reg EXCEPT ![16] = mask \cap (0..7)] EXCEPT ![17] = {b \in 0..7 : b + 8 \in mask}]
    <3>1. PICK a \in {16, 20} : a = 16
      OBVIOUS
    <3> QED  BY <2>1, <3>1, DioOutw
  <2> HIDE DEF one
  <2>7. /\ e \in DioDev /\ e.name = one.name /\ DioLib!inpw(e, 20) = edge
        /\ e.reg = [[one.reg EXCEPT ![20] = edge \cap (0..7)] EXCEPT ![21] = {b \in 0..7 : b + 8 \in edge}]
    <3>1. PICK a \in {16, 20} : a = 20 /\ a + 1 = 21
      OBVIOUS
    <3>2. /\ e \in DioDev /\ e.name = one.name /\ DioLib!inpw(e, a) = edge
          /\ e.reg = [[one.reg EXCEPT ![a] = edge \cap (0..7)] EXCEPT ![a + 1] = {b \in 0..7 : b + 8 \in edge}]
      <4>1. e = DioLib!outw(one, a, edge)
        BY <2>2, <3>1
      <4> DEFINE x == DioLib!outw(one, a, edge)
      <4>2. /\ x \in DioDev /\ x.name = one.name /\ DioLib!inpw(x, a) = edge
            /\ x.reg = [[one.reg EXCEPT ![a] = edge \cap (0..7)] EXCEPT ![a + 1] = {b \in 0..7 : b + 8 \in edge}]
        <5>1. one \in DioDev
          BY <2>6
        <5> QED  BY <2>1, <5>1, DioOutw
      <4> QED  BY <4>1, <4>2
    <3> QED  BY <3>1, <3>2
  <2>8. /\ one.reg \in [DioLib!Offsets -> SUBSET DioLib!Bits]
        /\ d.reg \in [DioLib!Offsets -> SUBSET DioLib!Bits]
    BY <2>6 DEF DioDev
  <2>9. /\ e.reg[16] = one.reg[16] /\ e.reg[17] = one.reg[17]
        /\ \A a \in DioLib!Offsets \ {16, 17, 20, 21} : e.reg[a] = one.reg[a]
    BY <2>7, <2>8 DEF DioLib!Offsets
  <2>10. \A a \in DioLib!Offsets \ {16, 17, 20, 21} : e.reg[a] = d.reg[a]
    BY <2>6, <2>8, <2>9
  <2>11. DioLib!inpw(e, 16) = mask
    BY <2>6, <2>9 DEF DioLib!inpw
  <2>12. DOMAIN s = {<<"notify", 0>>} /\ s[<<"notify", 0>>] = <<r.ch, r.val>> /\ DOMAIN s \subseteq DioKeys
    BY <2>3 DEF DioKeys
  <2>13. DioLib!Answers(e, <<"notify", 0>>) = {<<r.ch, r.val>>}
    <3>1. DioLib!Answers(e, <<"notify", 0>>) = {<<b, IF b \in edge THEN {0} ELSE {}>> : b \in {r.ch}}
      BY <2>5, <2>7, <2>11 DEF DioLib!Answers, DioLib!get_interrupt_edge, DioLib!Edge, DioLib!Mask
    <3>2. (IF r.ch \in edge THEN {0} ELSE {}) = r.val
      BY <1>5, <2>4
    <3> QED  BY <3>1, <3>2
  <2>14. \A c, p : <<c, p>> \in DioKeys \ DOMAIN s => DioRegs(c, p) \cap {16, 17, 20, 21} = {}
    BY <2>12 DEF DioKeys, DioRegs
  <2>15. {16, 17, 20, 21} \in SUBSET DioLib!Offsets
    BY DEF DioLib!Offsets
  <2>16. \A k \in DioKeys \ DOMAIN s : DioLib!Answers(e, k) = DioLib!Answers(d, k)
    BY <2>6, <2>7, <2>10, <2>14, <2>15, <1>0
  <2> QED
    BY <2>6, <2>7, <2>12, <2>13, <2>16
<1> QED
  <2> HIDE DEF Goal
  <2> QED
    BY <1>1, <1>2, <1>3, <1>4, <1>5 DEF DioLib!Legal

\* A device at its first use, and what it says of itself.
LEMMA DioBoot ==
  ASSUME NEW name \in DioLib!Names
  PROVE  /\ DioLib!Boot(name) \in DioDev /\ DioLib!Boot(name).name = name
         /\ DOMAIN DioLib!Facts(DioLib!Boot(name)) \subseteq DioKeys
         /\ \A k \in DOMAIN DioLib!Facts(DioLib!Boot(name)) :
              DioLib!Answers(DioLib!Boot(name), k) = {DioLib!Facts(DioLib!Boot(name))[k]}
<1> DEFINE d == DioLib!Boot(name)
           F == DioLib!Facts(d)
<1>1. d \in DioDev /\ d.name = name
  BY DEF DioLib!Boot, DioDev, DioLib!Bits
<1>2. DOMAIN F = {<<"in", p>> : p \in DioLib!InPorts(d)} \cup {<<"ports", 0>>, <<"name", 0>>}
  BY DEF DioLib!Facts
<1> HIDE DEF d
<1>3. DOMAIN F \subseteq DioKeys
  BY <1>1, <1>2, DioPorts DEF DioKeys
<1>4. \A p \in DioLib!InPorts(d) : p \in {0, 1} /\ F[<<"in", p>>] = d.reg[p]
  BY <1>1, DioPorts DEF DioLib!Facts
<1>5. F[<<"ports", 0>>] = DioLib!get_dio_portnum(d) /\ F[<<"name", 0>>] = d.name
  BY DEF DioLib!Facts
<1>6. DioLib!Answers(d, <<"ports", 0>>) = {DioLib!get_dio_portnum(d)}
  BY <1>1, DioPorts DEF DioLib!Answers
<1>7. DioLib!Answers(d, <<"name", 0>>) = {d.name}
  BY <1>1, DioPorts DEF DioLib!Answers, DioLib!QueryDeviceName, DioLib!InfoIoctl
<1> HIDE DEF F
<1>8. \A k \in DOMAIN F : DioLib!Answers(d, k) = {F[k]}
  BY <1>1, <1>2, <1>4, <1>5, <1>6, <1>7, DioView
<1> QED
  BY <1>1, <1>3, <1>8 DEF d, F

-----------------------------------------------------------------------------
(* The library of aio. *)

\* States of an aio device, and the keys its answers go by.
AioDev == [name : AioLib!Names, gate : {"open", "shut"}, reg : [AioLib!Registers -> Int],
           route : SUBSET (Int \X Int), word : [AioLib!Words -> Int]]
AioKeys == ({"limits", "name"} \X {0}) \cup ({"status"} \X {"AI", "AO", "MEM"})
             \cup ({"Channels", "Single", "Times", "Clock", "Given", "Calibration"} \X AioLib!TwoSides)
             \cup {<<"Gate", "ECU">>} \cup ({"Route"} \X AioLib!Inputs)

\* The register command i of a side leaves its data in.
AioReg(s, i) == <<"EXT", AioLib!Base(s) + i>>
AioNumbers == {3, 5, 9, 12, 32}

\* The commands of a side are where the header puts them.
LEMMA AioTables ==
  ASSUME NEW s
  PROVE  /\ AioLib!Table(s).SETCLOCK = <<"EXT", AioLib!Base(s) + 3, 4>>
         /\ AioLib!Table(s).SETCHANNEL = <<"EXT", AioLib!Base(s) + 5, 2>>
         /\ AioLib!Table(s).SETSAMPNUM = <<"EXT", AioLib!Base(s) + 9, 4>>
         /\ AioLib!Table(s).SINGLEMULTI = <<"EXT", AioLib!Base(s) + 12, 2>>
         /\ AioLib!Table(s).SETCALIBRATION = <<"EXT", AioLib!Base(s) + 32, 4>>
         /\ AioLib!Table(s).INIT = <<"EXT", AioLib!Base(s) + 0, 0>>
         /\ AioLib!Table(s).GATE_OPEN = <<"EXT", AioLib!Base(s) + 1, 0>>
         /\ AioLib!Table(s).FORCE_STOP = <<"EXT", AioLib!Base(s) + 2, 0>>
BY DEF AioLib!Table, AioLib!Ext

LEMMA AioRegisters ==
  /\ <<"ECU", 4096>> \in AioLib!Registers
  /\ \A s \in AioLib!TwoSides, i \in AioNumbers : AioReg(s, i) \in AioLib!Registers
  /\ \A a \in AioLib!Registers : (a = <<"ECU", 4096>>) \/ (\E s \in AioLib!TwoSides, i \in AioNumbers : a = AioReg(s, i))
BY DEF AioLib!Registers, AioReg, AioNumbers, AioLib!Ecu, AioLib!Ext

\* Two registers of the two sides are not the same.
LEMMA AioApart ==
  ASSUME NEW s \in AioLib!TwoSides, NEW t \in AioLib!TwoSides, NEW i \in AioNumbers, NEW j \in AioNumbers
  PROVE  /\ (AioReg(s, i) = AioReg(t, j)) <=> (s = t /\ i = j)
         /\ AioReg(s, i) # <<"ECU", 4096>>
         /\ AioReg(s, i)[1] = "EXT"
         /\ (AioReg(s, i)[2] \div 4096 = AioLib!Base(t) \div 4096) <=> (s = t)
BY DEF AioReg, AioNumbers, AioLib!Base, AioLib!TwoSides

\* A command leaves its data and nothing else.
LEMMA AioCommands ==
  ASSUME NEW d \in AioDev, NEW s \in AioLib!TwoSides, NEW i \in AioNumbers, NEW size, NEW v \in Int,
         NEW e, e = AioLib!command(d, <<"EXT", AioLib!Base(s) + i, size>>, v)
  PROVE  /\ e \in AioDev /\ e.name = d.name /\ e.word = d.word /\ e.gate = d.gate /\ e.route = d.route
         /\ e.reg = [d.reg EXCEPT ![AioReg(s, i)] = IF size = 4 THEN v ELSE v % 65536]
<1> DEFINE c == <<"EXT", AioLib!Base(s) + i, size>>
           data == IF size = 4 THEN v ELSE v % 65536
           a == AioReg(s, i)
<1>1. AioLib!EcuCommand.SETINPUTSIGNAL # c
  BY DEF AioLib!EcuCommand, AioLib!Ecu
<1>2. e = [d EXCEPT !.reg[a] = data]
  BY <1>1 DEF AioLib!command, AioReg
<1>3. data \in Int
  OBVIOUS
<1>4. a \in AioLib!Registers
  BY AioRegisters
<1> HIDE DEF data, a
<1>5. e \in AioDev /\ e.name = d.name /\ e.word = d.word /\ e.gate = d.gate /\ e.route = d.route
  BY <1>2, <1>3, <1>4, SMT DEF AioDev
<1>6. e.reg = [d.reg EXCEPT ![a] = data]
  BY <1>2, <1>3, <1>4, SMT DEF AioDev
<1> QED
  BY <1>5, <1>6 DEF a, data

AioMove(d, s, i) == AioLib!Called(d, <<"EXT", AioLib!Base(s) + i, 0>>)

\* The gate moves and nothing else.
LEMMA AioGate ==
  ASSUME NEW d \in AioDev, NEW s \in AioLib!TwoSides, NEW i \in {1, 2}, NEW e, e = AioMove(d, s, i)
  PROVE  /\ e \in AioDev /\ e.name = d.name /\ e.word = d.word /\ e.route = d.route /\ e.reg = d.reg
         /\ e.gate = (IF i = 1 THEN "open" ELSE "shut")
<1> DEFINE c == <<"EXT", AioLib!Base(s) + i, 0>>
           Opens == \E side \in AioLib!TwoSides : c = AioLib!Table(side).GATE_OPEN
           Stops == \E side \in AioLib!TwoSides : c = AioLib!Table(side).FORCE_STOP
           Inits == \E side \in AioLib!TwoSides : c = AioLib!Table(side).INIT
<1>1. c # AioLib!EcuCommand.INIT
  BY DEF AioLib!EcuCommand, AioLib!Ecu
<1>2. ~Inits
  BY AioTables DEF AioLib!Base, AioLib!TwoSides
<1>3. Opens <=> (i = 1)
  BY AioTables DEF AioLib!Base, AioLib!TwoSides
<1>4. Stops <=> (i = 2)
  BY AioTables DEF AioLib!Base, AioLib!TwoSides
<1>5. e = CASE c = AioLib!EcuCommand.INIT -> AioLib!EcuCleared(d)
            [] Inits -> AioLib!SideCleared(d, c)
            [] Opens -> [d EXCEPT !.gate = "open"]
            [] Stops -> [d EXCEPT !.gate = "shut"]
            [] c = AioLib!MemInit -> d
  BY DEF AioLib!Called, AioMove
<1>6. c # AioLib!MemInit
  BY DEF AioLib!MemInit, AioLib!Ext, AioLib!Base
<1> HIDE DEF c, Inits, Opens, Stops
<1>7. CASE i = 1
  <2>1. e = [d EXCEPT !.gate = "open"]
    BY <1>1, <1>2, <1>3, <1>4, <1>5, <1>6, <1>7
  <2> QED
    BY <1>7, <2>1, SMT DEF AioDev
<1>8. CASE i = 2
  <2>1. e = [d EXCEPT !.gate = "shut"]
    BY <1>1, <1>2, <1>3, <1>4, <1>5, <1>6, <1>8
  <2> QED
    BY <1>8, <2>1, SMT DEF AioDev
<1> QED
  BY <1>7, <1>8

\* What an input of the controller is connected to.
AioSources(d, dest) == {c[2] : c \in {x \in d.route : x[1] = dest}}

\* A connection takes the place of the one before, and of no other.
LEMMA AioConnects ==
  ASSUME NEW d \in AioDev, NEW dest, AioLib!Word(dest), NEW src, AioLib!Word(src),
         NEW e, e = AioLib!SetEcuSignal(d, dest, src)
  PROVE  /\ e \in AioDev /\ e.name = d.name /\ e.word = d.word /\ e.gate = d.gate /\ e.reg = d.reg
         /\ AioSources(e, dest) = {src}
         /\ \A other : other # dest => AioSources(e, other) = AioSources(d, other)
<1> DEFINE v == src * 65536 + dest
           R == {c \in d.route : c[1] # dest} \cup {<<dest, src>>}
<1>0. dest \in Int /\ src \in Int /\ dest >= 0 /\ dest < 65536 /\ src >= 0
  BY DEF AioLib!Word
<1>1. v % 65536 = dest /\ v \div 65536 = src
  BY <1>0
<1>2. AioLib!EcuCommand.SETINPUTSIGNAL = <<"ECU", 3, 4>>
  BY DEF AioLib!EcuCommand, AioLib!Ecu
<1>3. e = [d EXCEPT !.route = AioLib!Connected(@, v)]
  <2>1. e = AioLib!command(d, AioLib!EcuCommand.SETINPUTSIGNAL, v)
    BY DEF AioLib!SetEcuSignal, AioLib!ioctl_ecu
  <2> HIDE DEF v
  <2> QED
    BY <1>2, <2>1 DEF AioLib!command
<1>4. AioLib!Connected(d.route, v) = R
  <2> HIDE DEF v
  <2> QED
    BY <1>1 DEF AioLib!Connected
<1>5. d.route \subseteq Int \X Int /\ R \subseteq Int \X Int
  BY <1>0 DEF AioDev
<1> HIDE DEF v, R
<1>6. e = [d EXCEPT !.route = R]
  BY <1>3, <1>4
<1>7. e \in AioDev /\ e.name = d.name /\ e.word = d.word /\ e.gate = d.gate /\ e.reg = d.reg /\ e.route = R
  BY <1>5, <1>6, SMT DEF AioDev
<1>8. AioSources(e, dest) = {src}
  <2>1. {x \in R : x[1] = dest} = {<<dest, src>>}
    BY <1>5 DEF R
  <2>2. {c[2] : c \in {<<dest, src>>}} = {src}
    OBVIOUS
  <2> QED
    BY <1>7, <2>1, <2>2 DEF AioSources
<1>9. ASSUME NEW other, other # dest
      PROVE  AioSources(e, other) = AioSources(d, other)
  <2>1. {x \in R : x[1] = other} = {x \in d.route : x[1] = other}
    BY <1>5, <1>9 DEF R
  <2> QED
    BY <1>7, <2>1 DEF AioSources
<1> QED
  BY <1>7, <1>8, <1>9

\* An initialisation leaves a device of the same product.
LEMMA AioClears ==
  ASSUME NEW d \in AioDev,
         NEW c, (c = AioLib!EcuCommand.INIT) \/ (c = AioLib!Table("AI").INIT) \/ (c = AioLib!Table("AO").INIT) \/ (c = AioLib!MemInit),
         NEW e, e = AioLib!Called(d, c)
  PROVE  e \in AioDev /\ e.name = d.name /\ e.word = d.word
<1> DEFINE Opens == \E side \in AioLib!TwoSides : c = AioLib!Table(side).GATE_OPEN
           Stops == \E side \in AioLib!TwoSides : c = AioLib!Table(side).FORCE_STOP
           Inits == \E side \in AioLib!TwoSides : c = AioLib!Table(side).INIT
           Same(x) == x \in AioDev /\ x.name = d.name /\ x.word = d.word
<1>1. AioLib!EcuCommand.INIT = <<"ECU", 0, 0>> /\ AioLib!MemInit = <<"EXT", 24576, 0>>
  BY DEF AioLib!EcuCommand, AioLib!Ecu, AioLib!Ext, AioLib!MemInit
<1>2. ~Opens /\ ~Stops
  BY <1>1, AioTables DEF AioLib!Base, AioLib!TwoSides
<1>3. Inits <=> (c = AioLib!Table("AI").INIT \/ c = AioLib!Table("AO").INIT)
  BY DEF AioLib!TwoSides
<1>4. e = CASE c = AioLib!EcuCommand.INIT -> AioLib!EcuCleared(d)
            [] Inits -> AioLib!SideCleared(d, c)
            [] Opens -> [d EXCEPT !.gate = "open"]
            [] Stops -> [d EXCEPT !.gate = "shut"]
            [] c = AioLib!MemInit -> d
  BY DEF AioLib!Called
<1>5. ASSUME NEW x \in AioDev, x.name = d.name, x.word = d.word, NEW A
      PROVE  Same(AioLib!RegsZeroed(x, A))
  <2> DEFINE f == [r \in AioLib!Registers |-> IF r \in A THEN 0 ELSE x.reg[r]]
  <2>1. f \in [AioLib!Registers -> Int]
    BY <1>5 DEF AioDev
  <2>2. AioLib!RegsZeroed(x, A) = [x EXCEPT !.reg = f]
    BY DEF AioLib!RegsZeroed
  <2> HIDE DEF f
  <2> QED  BY <1>5, <2>1, <2>2, SMT DEF AioDev
<1>6. Same(AioLib!EcuCleared(d))
  <2> DEFINE x == [d EXCEPT !.route = {}]
  <2>1. x \in AioDev /\ x.name = d.name /\ x.word = d.word
    BY SMT DEF AioDev
  <2> HIDE DEF x
  <2> QED  BY <1>5, <2>1 DEF x, AioLib!EcuCleared
<1>7. Same(AioLib!SideCleared(d, c))
  <2> DEFINE x == [d EXCEPT !.gate = "shut"]
  <2>1. x \in AioDev /\ x.name = d.name /\ x.word = d.word
    BY SMT DEF AioDev
  <2> DEFINE A == {r \in AioLib!Registers : r[1] = "EXT" /\ r[2] \div 4096 = c[2] \div 4096}
  <2>2. AioLib!SideCleared(d, c) = AioLib!RegsZeroed(x, A)
    BY DEF AioLib!SideCleared, AioLib!Ext
  <2> HIDE DEF x, A
  <2> QED  BY <1>5, <2>1, <2>2
<1> HIDE DEF Inits, Opens, Stops
<1>8. (e = AioLib!EcuCleared(d)) \/ (e = AioLib!SideCleared(d, c)) \/ (e = d)
  BY <1>2, <1>3, <1>4
<1> QED
  BY <1>6, <1>7, <1>8

\* A product has inputs or outputs, of the resolution in the table.
LEMMA AioProduct ==
  ASSUME NEW d \in AioDev
  PROVE  LET p == AioLib!find_analog_device(d)
         IN  /\ p.Name = d.name
             /\ \/ AioLib!Sides(d) = {"AI"} /\ AioLib!Has(d, "AI") /\ p.ai = <<16, 8>> /\ p.ao = <<0, 0>>
                \/ AioLib!Sides(d) = {"AO"} /\ AioLib!Has(d, "AO") /\ ~AioLib!Has(d, "AI") /\ p.ai = <<0, 0>> /\ p.ao = <<16, 4>>
<1> DEFINE Is(q) == q.Name = d.name
           p == CHOOSE q \in AioLib!cps_aio_data : Is(q)
<1>1. \E q \in AioLib!cps_aio_data : Is(q)
  BY DEF AioDev, AioLib!Names
<1>2. p \in AioLib!cps_aio_data /\ Is(p)
  <2> HIDE DEF Is
  <2> QED  BY <1>1
<1>3. AioLib!find_analog_device(d) = p
  BY DEF AioLib!find_analog_device
<1> HIDE DEF p
<1>4. \/ p.Ability = {"ECU", "AI", "MEM"} /\ p.ai = <<16, 8>> /\ p.ao = <<0, 0>>
      \/ p.Ability = {"ECU", "AO", "MEM"} /\ p.ai = <<0, 0>> /\ p.ao = <<16, 4>>
  BY <1>2 DEF AioLib!cps_aio_data
<1>5. \A s \in AioLib!TwoSides : AioLib!Has(d, s) <=> (s \in p.Ability)
  BY <1>3 DEF AioLib!Has
<1>6. AioLib!Sides(d) = {s \in {"AI", "AO"} : s \in p.Ability}
  BY <1>5 DEF AioLib!Sides, AioLib!TwoSides
<1>7. CASE p.Ability = {"ECU", "AI", "MEM"} /\ p.ai = <<16, 8>> /\ p.ao = <<0, 0>>
  <2>1. AioLib!Sides(d) = {"AI"} /\ AioLib!Has(d, "AI")
    BY <1>5, <1>6, <1>7 DEF AioLib!TwoSides
  <2> QED  BY <1>2, <1>3, <1>7, <2>1
<1>8. CASE p.Ability = {"ECU", "AO", "MEM"} /\ p.ai = <<0, 0>> /\ p.ao = <<16, 4>>
  <2>1. AioLib!Sides(d) = {"AO"} /\ AioLib!Has(d, "AO") /\ ~AioLib!Has(d, "AI")
    BY <1>5, <1>6, <1>8 DEF AioLib!TwoSides
  <2> QED  BY <1>2, <1>3, <1>8, <2>1
<1> QED
  BY <1>4, <1>7, <1>8

LEMMA AioSameProduct ==
  ASSUME NEW d, NEW e, e.name = d.name
  PROVE  /\ AioLib!find_analog_device(e) = AioLib!find_analog_device(d)
         /\ \A s : AioLib!Has(e, s) <=> AioLib!Has(d, s)
<1>1. AioLib!find_analog_device(e) = AioLib!find_analog_device(d)
  BY DEF AioLib!find_analog_device
<1> QED
  BY <1>1 DEF AioLib!Has

\* What the settings' registers mean.
LEMMA AioReads ==
  ASSUME NEW d, NEW s
  PROVE  /\ AioLib!ReadCommand(d, AioLib!Table(s).SETCHANNEL) = d.reg[AioReg(s, 5)] % 65536
         /\ AioLib!ReadCommand(d, AioLib!Table(s).SINGLEMULTI) = d.reg[AioReg(s, 12)] % 65536
         /\ AioLib!ReadCommand(d, AioLib!Table(s).SETSAMPNUM) = d.reg[AioReg(s, 9)]
         /\ AioLib!ReadCommand(d, AioLib!Table(s).SETCLOCK) = d.reg[AioReg(s, 3)]
         /\ AioLib!ReadCommand(d, AioLib!Table(s).SETCALIBRATION) = d.reg[AioReg(s, 32)]
BY AioTables DEF AioLib!ReadCommand, AioReg

\* What each getter answers, in terms of the registers it reads.
LEMMA AioChannels ==
  ASSUME NEW d, NEW s \in AioLib!TwoSides
  PROVE  AioLib!Answers(d, <<"Channels", s>>) =
           {<<(d.reg[AioReg(s, 5)] % 65536) + 1>> : m \in {1} \cap {d.reg[AioReg(s, 12)] % 65536}}
BY AioReads DEF AioLib!Answers

LEMMA AioChannelsAre ==
  ASSUME NEW d, NEW s \in AioLib!TwoSides, NEW n, (d.reg[AioReg(s, 5)] % 65536) + 1 = n, d.reg[AioReg(s, 12)] % 65536 = 1
  PROVE  AioLib!Answers(d, <<"Channels", s>>) = {<<n>>}
<1> DEFINE p == (d.reg[AioReg(s, 5)] % 65536) + 1
           q == d.reg[AioReg(s, 12)] % 65536
<1>1. AioLib!Answers(d, <<"Channels", s>>) = {<<p>> : m \in {1} \cap {q}}
  BY AioChannels
<1>2. p = n /\ q = 1
  OBVIOUS
<1> HIDE DEF p, q
<1>3. {1} \cap {q} = {1}
  BY <1>2
<1>4. {<<p>> : m \in {1}} = {<<n>>}
  BY <1>2
<1> QED
  BY <1>1, <1>3, <1>4

LEMMA AioSingle ==
  ASSUME NEW d, NEW s \in AioLib!TwoSides
  PROVE  AioLib!Answers(d, <<"Single", s>>) =
           {<<d.reg[AioReg(s, 5)] % 65536>> : m \in {0} \cap {d.reg[AioReg(s, 12)] % 65536}}
BY AioReads DEF AioLib!Answers

LEMMA AioSingleIs ==
  ASSUME NEW d, NEW s \in AioLib!TwoSides, NEW n, d.reg[AioReg(s, 5)] % 65536 = n, d.reg[AioReg(s, 12)] % 65536 = 0
  PROVE  AioLib!Answers(d, <<"Single", s>>) = {<<n>>}
<1> DEFINE p == d.reg[AioReg(s, 5)] % 65536
           q == d.reg[AioReg(s, 12)] % 65536
<1>1. AioLib!Answers(d, <<"Single", s>>) = {<<p>> : m \in {0} \cap {q}}
  BY AioSingle
<1>2. p = n /\ q = 0
  OBVIOUS
<1> HIDE DEF p, q
<1>3. {0} \cap {q} = {0}
  BY <1>2
<1>4. {<<p>> : m \in {0}} = {<<n>>}
  BY <1>2
<1> QED
  BY <1>1, <1>3, <1>4

LEMMA AioTimes ==
  ASSUME NEW d, NEW s \in AioLib!TwoSides
  PROVE  AioLib!Answers(d, <<"Times", s>>) = {<<d.reg[AioReg(s, 9)] + 1>>}
BY AioReads DEF AioLib!Answers

LEMMA AioClock ==
  ASSUME NEW d, NEW s \in AioLib!TwoSides
  PROVE  AioLib!Answers(d, <<"Clock", s>>) = {<<(d.reg[AioReg(s, 3)] + 1) * 25>>}
BY AioReads DEF AioLib!Answers

LEMMA AioCalibration ==
  ASSUME NEW d, NEW s \in AioLib!TwoSides
  PROVE  AioLib!Answers(d, <<"Calibration", s>>) = {AioLib!Unpacked(d.reg[AioReg(s, 32)])}
BY AioReads DEF AioLib!Answers, AioLib!GetAiCalibrationData, AioLib!GetAoCalibrationData, AioLib!CalibrationOf, AioLib!TwoSides

LEMMA AioOthers ==
  ASSUME NEW d, NEW s
  PROVE  /\ AioLib!Answers(d, <<"Given", s>>) = {1}
         /\ AioLib!Answers(d, <<"Gate", s>>) = {d.gate}
         /\ AioLib!Answers(d, <<"Route", s>>) = AioSources(d, s)
BY DEF AioLib!Answers, AioLib!DirectCommandInput, AioSources

LEMMA AioGivenIs ==
  ASSUME NEW d, NEW s
  PROVE  AioLib!Answers(d, <<"Given", s>>) = {1}
BY AioOthers

LEMMA AioGateIs ==
  ASSUME NEW d, NEW s
  PROVE  AioLib!Answers(d, <<"Gate", s>>) = {d.gate}
BY AioOthers

LEMMA AioRouteIs ==
  ASSUME NEW d, NEW s
  PROVE  AioLib!Answers(d, <<"Route", s>>) = AioSources(d, s)
BY AioOthers

\* What answers depend on.
AioRegs(c, s) ==
  CASE c \in {"Channels", "Single"} -> {AioReg(s, 5), AioReg(s, 12)} [] c = "Times" -> {AioReg(s, 9)}
    [] c = "Clock" -> {AioReg(s, 3)} [] c = "Calibration" -> {AioReg(s, 32)} [] OTHER -> {}

\* An answer whose registers stay is the same.
LEMMA AioSame ==
  ASSUME NEW d \in AioDev, NEW e \in AioDev, e.name = d.name, e.word = d.word,
         NEW c, NEW s, <<c, s>> \in AioKeys,
         \A a \in AioRegs(c, s) : e.reg[a] = d.reg[a],
         c = "Gate" => e.gate = d.gate,
         c = "Route" => AioSources(e, s) = AioSources(d, s)
  PROVE  AioLib!Answers(e, <<c, s>>) = AioLib!Answers(d, <<c, s>>)
<1>0. AioLib!find_analog_device(e) = AioLib!find_analog_device(d)
  BY AioSameProduct
<1>1. CASE c = "limits"
  BY <1>0, <1>1 DEF AioLib!Answers, AioLib!GetAiResolution, AioLib!GetAoResolution, AioLib!GetAiMaxChannels,
                    AioLib!GetAoMaxChannels, AioLib!Resolution, AioLib!MaxChannel
<1>2. CASE c = "name"
  BY <1>0, <1>2 DEF AioLib!Answers, AioLib!QueryDeviceName
<1>3. CASE c = "status"
  BY <1>3 DEF AioLib!Answers, AioLib!DirectInput, AioLib!GetAiStatus, AioLib!GetAoStatus, AioLib!MemStatus,
              AioLib!read_ai_status, AioLib!read_ao_status
<1>4. CASE c \in {"Channels", "Single"}
  <2>1. s \in AioLib!TwoSides /\ e.reg[AioReg(s, 5)] = d.reg[AioReg(s, 5)] /\ e.reg[AioReg(s, 12)] = d.reg[AioReg(s, 12)]
    BY <1>4 DEF AioKeys, AioRegs
  <2>2. CASE c = "Channels"
    BY <2>1, <2>2, AioChannels
  <2>3. CASE c = "Single"
    BY <2>1, <2>3, AioSingle
  <2> QED  BY <1>4, <2>2, <2>3
<1>5. CASE c = "Times"
  <2>1. s \in AioLib!TwoSides /\ e.reg[AioReg(s, 9)] = d.reg[AioReg(s, 9)]
    BY <1>5 DEF AioKeys, AioRegs
  <2> QED  BY <1>5, <2>1, AioTimes
<1>6. CASE c = "Clock"
  <2>1. s \in AioLib!TwoSides /\ e.reg[AioReg(s, 3)] = d.reg[AioReg(s, 3)]
    BY <1>6 DEF AioKeys, AioRegs
  <2> QED  BY <1>6, <2>1, AioClock
<1>7. CASE c = "Calibration"
  <2>1. s \in AioLib!TwoSides /\ e.reg[AioReg(s, 32)] = d.reg[AioReg(s, 32)]
    BY <1>7 DEF AioKeys, AioRegs
  <2> QED  BY <1>7, <2>1, AioCalibration
<1>8. CASE c = "Given"
  BY <1>8, AioGivenIs
<1>9. CASE c = "Gate"
  BY <1>9, AioGateIs
<1>10. CASE c = "Route"
  <2>1. AioLib!Answers(e, <<"Route", s>>) = AioSources(e, s)
    BY AioRouteIs
  <2>2. AioLib!Answers(d, <<"Route", s>>) = AioSources(d, s)
    BY AioRouteIs
  <2>3. AioSources(e, s) = AioSources(d, s)
    BY <1>10
  <2> QED  BY <1>10, <2>1, <2>2, <2>3
<1> QED
  BY <1>1, <1>2, <1>3, <1>4, <1>5, <1>6, <1>7, <1>8, <1>9, <1>10 DEF AioKeys

\* The ioctls of a side the product has.
AioIoctl(d, s, cmd, v) == IF s = "AI" THEN AioLib!ioctl_ai(d, cmd, v) ELSE AioLib!ioctl_ao(d, cmd, v)

\* A setter's ioctl is one command with its value.
LEMMA AioIoctls ==
  ASSUME NEW d, NEW s \in AioLib!TwoSides, AioLib!Has(d, s), NEW v
  PROVE  /\ AioIoctl(d, s, "SETTRANSFER_MODE", v) = AioLib!command(d, <<"EXT", AioLib!Base(s) + 12, 2>>, v)
         /\ AioIoctl(d, s, "SETCHANNEL", v) = AioLib!command(d, <<"EXT", AioLib!Base(s) + 5, 2>>, v)
         /\ AioIoctl(d, s, "SET_CLOCK", v) = AioLib!command(d, <<"EXT", AioLib!Base(s) + 3, 4>>, v)
         /\ AioIoctl(d, s, "SET_SAMPNUM", v) = AioLib!command(d, <<"EXT", AioLib!Base(s) + 9, 4>>, v)
         /\ AioIoctl(d, s, "SET_CALIBRATION", v) = AioLib!command(d, <<"EXT", AioLib!Base(s) + 32, 4>>, v)
         /\ AioIoctl(d, s, "START", v) = AioLib!Called(d, <<"EXT", AioLib!Base(s) + 1, 0>>)
         /\ AioIoctl(d, s, "STOP", v) = AioLib!Called(d, <<"EXT", AioLib!Base(s) + 2, 0>>)
<1> DEFINE t == AioLib!Table(s)
<1>1. ASSUME NEW cmd
      PROVE  AioIoctl(d, s, cmd, v) = AioLib!ioctl_side(d, t, cmd, v)
  <2>1. CASE s = "AI"
    BY <2>1 DEF AioIoctl, AioLib!ioctl_ai
  <2>2. CASE s = "AO"
    BY <2>2 DEF AioIoctl, AioLib!ioctl_ao
  <2> QED  BY <2>1, <2>2 DEF AioLib!TwoSides
<1> HIDE DEF t
<1>2. AioIoctl(d, s, "SETTRANSFER_MODE", v) = AioLib!command(d, t.SINGLEMULTI, v)
  BY <1>1 DEF AioLib!ioctl_side
<1>3. AioIoctl(d, s, "SETCHANNEL", v) = AioLib!command(d, t.SETCHANNEL, v)
  BY <1>1 DEF AioLib!ioctl_side
<1>4. AioIoctl(d, s, "SET_CLOCK", v) = AioLib!command(d, t.SETCLOCK, v)
  BY <1>1 DEF AioLib!ioctl_side
<1>5. AioIoctl(d, s, "SET_SAMPNUM", v) = AioLib!command(d, t.SETSAMPNUM, v)
  BY <1>1 DEF AioLib!ioctl_side
<1>6. AioIoctl(d, s, "SET_CALIBRATION", v) = AioLib!command(d, t.SETCALIBRATION, v)
  BY <1>1 DEF AioLib!ioctl_side
<1>7. AioIoctl(d, s, "START", v) = AioLib!Called(d, t.GATE_OPEN)
  BY <1>1 DEF AioLib!ioctl_side
<1>8. AioIoctl(d, s, "STOP", v) = AioLib!Called(d, t.FORCE_STOP)
  BY <1>1 DEF AioLib!ioctl_side
<1> QED
  BY <1>2, <1>3, <1>4, <1>5, <1>6, <1>7, <1>8, AioTables DEF t

\* What a call leaves of a device: all but the registers of A.
AioLeft(d, e, A) ==
  /\ e \in AioDev /\ e.name = d.name /\ e.word = d.word
  /\ \A a \in AioLib!Registers \ A : e.reg[a] = d.reg[a]

\* Which keys other than those of K that does not concern.
AioFrame(d, e, A, K) ==
  \A c, s : <<c, s>> \in AioKeys \ K =>
     /\ AioRegs(c, s) \cap A = {}
     /\ c = "Gate" => e.gate = d.gate
     /\ c = "Route" => AioSources(e, s) = AioSources(d, s)

LEMMA AioKeeps ==
  ASSUME NEW d \in AioDev, NEW e, NEW A, AioLeft(d, e, A), NEW K, AioFrame(d, e, A, K)
  PROVE  \A k \in AioKeys \ K : AioLib!Answers(e, k) = AioLib!Answers(d, k)
<1> TAKE k \in AioKeys \ K
<1>1. PICK c, s : k = <<c, s>>
  BY DEF AioKeys
<1>2. AioRegs(c, s) \subseteq AioLib!Registers
  BY <1>1, AioRegisters DEF AioKeys, AioRegs, AioNumbers
<1>3. \A a \in AioRegs(c, s) : e.reg[a] = d.reg[a]
  BY <1>1, <1>2 DEF AioLeft, AioFrame
<1>4. /\ e \in AioDev /\ e.name = d.name /\ e.word = d.word
      /\ c = "Gate" => e.gate = d.gate
      /\ c = "Route" => AioSources(e, s) = AioSources(d, s)
  BY <1>1 DEF AioLeft, AioFrame
<1> QED
  BY <1>1, <1>3, <1>4, AioSame

\* A side's ioctl that leaves its data, as a step of a call.
AioChanged(x, e, s, i, w) ==
  /\ e \in AioDev /\ e.name = x.name /\ e.word = x.word /\ e.gate = x.gate /\ e.route = x.route
  /\ e.reg = [x.reg EXCEPT ![AioReg(s, i)] = w]
AioSetters == {<<"SETTRANSFER_MODE", 12, 2>>, <<"SETCHANNEL", 5, 2>>, <<"SET_CLOCK", 3, 4>>,
               <<"SET_SAMPNUM", 9, 4>>, <<"SET_CALIBRATION", 32, 4>>}

LEMMA AioPut ==
  ASSUME NEW x \in AioDev, NEW s \in AioLib!TwoSides, AioLib!Has(x, s), NEW cmd, NEW i, NEW size,
         <<cmd, i, size>> \in AioSetters, NEW v \in Int, NEW e, e = AioIoctl(x, s, cmd, v)
  PROVE  AioChanged(x, e, s, i, IF size = 4 THEN v ELSE v % 65536)
<1> DEFINE Goal == e = AioLib!command(x, <<"EXT", AioLib!Base(s) + i, size>>, v)
<1>1. Goal
  <2>1. CASE cmd = "SETTRANSFER_MODE" /\ i = 12 /\ size = 2
    BY <2>1, AioIoctls
  <2>2. CASE cmd = "SETCHANNEL" /\ i = 5 /\ size = 2
    BY <2>2, AioIoctls
  <2>3. CASE cmd = "SET_CLOCK" /\ i = 3 /\ size = 4
    BY <2>3, AioIoctls
  <2>4. CASE cmd = "SET_SAMPNUM" /\ i = 9 /\ size = 4
    BY <2>4, AioIoctls
  <2>5. CASE cmd = "SET_CALIBRATION" /\ i = 32 /\ size = 4
    BY <2>5, AioIoctls
  <2> HIDE DEF Goal
  <2> QED
    BY <2>1, <2>2, <2>3, <2>4, <2>5 DEF AioSetters
<1>2. i \in AioNumbers
  BY DEF AioSetters, AioNumbers
<1> QED
  BY <1>1, <1>2, AioCommands DEF AioChanged

\* What is read where a command has left its data, and elsewhere.
LEMMA AioReadBack ==
  ASSUME NEW x \in AioDev, NEW s \in AioLib!TwoSides, NEW i \in AioNumbers, NEW w, NEW e, AioChanged(x, e, s, i, w)
  PROVE  /\ e.reg[AioReg(s, i)] = w
         /\ \A a \in AioLib!Registers \ {AioReg(s, i)} : e.reg[a] = x.reg[a]
<1>1. x.reg \in [AioLib!Registers -> Int] /\ AioReg(s, i) \in AioLib!Registers
  BY AioRegisters DEF AioDev
<1>2. e.reg = [x.reg EXCEPT ![AioReg(s, i)] = w]
  BY DEF AioChanged
<1> QED
  BY <1>1, <1>2

LEMMA AioReadElse ==
  ASSUME NEW x \in AioDev, NEW s \in AioLib!TwoSides, NEW i \in AioNumbers, NEW w, NEW e, AioChanged(x, e, s, i, w),
         NEW j \in AioNumbers, i # j
  PROVE  e.reg[AioReg(s, j)] = x.reg[AioReg(s, j)]
<1>1. AioReg(s, j) \in AioLib!Registers \ {AioReg(s, i)}
  BY AioApart, AioRegisters
<1> QED
  BY <1>1, AioReadBack

LEMMA AioOne ==
  ASSUME NEW d \in AioDev, NEW x, NEW A, AioLeft(d, x, A), NEW s \in AioLib!TwoSides, NEW i \in AioNumbers,
         NEW w, NEW e, AioChanged(x, e, s, i, w), NEW B, A \subseteq B, AioReg(s, i) \in B
  PROVE  AioLeft(d, e, B)
<1>1. x \in AioDev
  BY DEF AioLeft
<1>2. \A a \in AioLib!Registers \ {AioReg(s, i)} : e.reg[a] = x.reg[a]
  BY <1>1, AioReadBack
<1>3. \A a \in AioLib!Registers \ A : x.reg[a] = d.reg[a]
  BY DEF AioLeft
<1>4. \A a \in AioLib!Registers \ B : e.reg[a] = d.reg[a]
  BY <1>2, <1>3
<1> QED
  BY <1>4 DEF AioLeft, AioChanged

\* The keys whose answers a register has a part in.
LEMMA AioPart ==
  ASSUME NEW b, NEW t, <<b, t>> \in AioKeys, NEW s \in AioLib!TwoSides
  PROVE  /\ AioReg(s, 5) \in AioRegs(b, t) => b \in {"Channels", "Single"} /\ t = s
         /\ AioReg(s, 12) \in AioRegs(b, t) => b \in {"Channels", "Single"} /\ t = s
         /\ AioReg(s, 9) \in AioRegs(b, t) => b = "Times" /\ t = s
         /\ AioReg(s, 3) \in AioRegs(b, t) => b = "Clock" /\ t = s
         /\ AioReg(s, 32) \in AioRegs(b, t) => b = "Calibration" /\ t = s
         /\ <<"ECU", 4096>> \notin AioRegs(b, t)
<1>1. CASE t \in AioLib!TwoSides
  BY <1>1, AioApart DEF AioRegs, AioNumbers
<1>2. CASE t \notin AioLib!TwoSides
  BY <1>2 DEF AioRegs, AioKeys
<1> QED  BY <1>1, <1>2

\* What a call gives: the device, what it settles, what it leaves.
AioGives(d, r, e) ==
  /\ e \in AioDev /\ e.name = d.name
  /\ DOMAIN AioLib!Settles(r) \subseteq AioKeys
  /\ \A k \in DOMAIN AioLib!Settles(r) : AioLib!Answers(e, k) = {AioLib!Settles(r)[k]}
  /\ \A k \in AioKeys \ (DOMAIN AioLib!Settles(r) \cup AioLib!Forgets(r)) : AioLib!Answers(e, k) = AioLib!Answers(d, k)

\* The usual call: it settles one key.
LEMMA AioSettlesOne ==
  ASSUME NEW d \in AioDev, NEW r, NEW e, NEW A, AioLeft(d, e, A), NEW c, NEW s, NEW v,
         AioLib!Settles(r) = [k \in {<<c, s>>} |-> v], <<c, s>> \in AioKeys,
         AioLib!Answers(e, <<c, s>>) = {v}, AioFrame(d, e, A, {<<c, s>>} \cup AioLib!Forgets(r))
  PROVE  AioGives(d, r, e)
<1>1. DOMAIN AioLib!Settles(r) = {<<c, s>>} /\ AioLib!Settles(r)[<<c, s>>] = v
  OBVIOUS
<1>2. \A k \in AioKeys \ ({<<c, s>>} \cup AioLib!Forgets(r)) : AioLib!Answers(e, k) = AioLib!Answers(d, k)
  BY AioKeeps
<1>3. e \in AioDev /\ e.name = d.name
  BY DEF AioLeft
<1> QED
  BY <1>1, <1>2, <1>3 DEF AioGives

\* Each call settles what it says and nothing else.
LEMMA AioSetChannels ==
  ASSUME NEW d \in AioDev, NEW r, NEW s \in AioLib!Sides(d), r.ch = s, r.call = "Channels",
         NEW n \in Int, r.val = <<n>>, AioLib!Word(n - 1)
  PROVE  AioGives(d, r, AioLib!Do(d, r))
<1> DEFINE x == AioIoctl(d, s, "SETTRANSFER_MODE", 1)
           e == AioIoctl(x, s, "SETCHANNEL", n - 1)
           A == {AioReg(s, 12)}
           B == {AioReg(s, 12), AioReg(s, 5)}
<1> SUFFICES AioGives(d, r, AioLib!Do(d, r))
  OBVIOUS
<1>1. s \in AioLib!TwoSides /\ AioLib!Has(d, s)
  BY DEF AioLib!Sides
<1>2. AioLib!Do(d, r) = e
  <2>0. r.val[1] = n
    OBVIOUS
  <2>1. AioLib!Do(d, r) = IF s = "AI" THEN AioLib!SetAiChannels(d, n) ELSE AioLib!SetAoChannels(d, n)
    BY <2>0 DEF AioLib!Do
  <2>2. CASE s = "AI"
    <3>1. AioLib!Do(d, r) = AioLib!SetChannels(d, FALSE, n)
      BY <2>1, <2>2 DEF AioLib!SetAiChannels
    <3> QED  BY <2>2, <3>1 DEF AioLib!SetChannels, AioLib!set_exchange, AioLib!ioctl_of, AioIoctl
  <2>3. CASE s = "AO"
    <3>1. AioLib!Do(d, r) = AioLib!SetChannels(d, TRUE, n)
      BY <2>1, <2>3 DEF AioLib!SetAoChannels
    <3> QED  BY <2>3, <3>1 DEF AioLib!SetChannels, AioLib!set_exchange, AioLib!ioctl_of, AioIoctl
  <2> QED  BY <1>1, <2>2, <2>3 DEF AioLib!TwoSides
<1> HIDE DEF x, e, A, B
<1>3. n - 1 \in Int /\ (n - 1) % 65536 = n - 1 /\ 1 % 65536 = 1
  BY DEF AioLib!Word
<1>4. 5 \in AioNumbers /\ 12 \in AioNumbers
  BY DEF AioNumbers
<1>5. AioChanged(d, x, s, 12, 1)
  <2>1. <<"SETTRANSFER_MODE", 12, 2>> \in AioSetters
    BY DEF AioSetters
  <2>2. AioChanged(d, x, s, 12, IF 2 = 4 THEN 1 ELSE 1 % 65536)
    BY <1>1, <2>1, AioPut DEF x
  <2> QED  BY <1>3, <2>2
<1>6. AioChanged(x, e, s, 5, n - 1)
  <2>1. <<"SETCHANNEL", 5, 2>> \in AioSetters
    BY DEF AioSetters
  <2>2. x \in AioDev /\ AioLib!Has(x, s)
    BY <1>1, <1>5, AioSameProduct DEF AioChanged
  <2>3. AioChanged(x, e, s, 5, IF 2 = 4 THEN n - 1 ELSE (n - 1) % 65536)
    BY <1>1, <1>3, <2>1, <2>2, AioPut DEF e
  <2> QED  BY <1>3, <2>3
<1>7. AioLeft(d, e, B) /\ e.gate = d.gate /\ e.route = d.route
  <2>1. AioLeft(d, d, {})
    BY DEF AioLeft
  <2>2. AioLeft(d, x, A)
    BY <1>1, <1>4, <1>5, <2>1, AioOne DEF A
  <2>3. AioLeft(d, e, B)
    BY <1>1, <1>4, <1>6, <2>2, AioOne DEF A, B
  <2> QED  BY <1>5, <1>6, <2>3 DEF AioChanged
<1>8. AioLib!Answers(e, <<"Channels", s>>) = {r.val}
  <2>0. x \in AioDev
    BY <1>5 DEF AioChanged
  <2>5. x.reg[AioReg(s, 12)] = 1
    BY <1>1, <1>4, <1>5, AioReadBack
  <2>1. e.reg[AioReg(s, 5)] = n - 1
    BY <1>1, <1>4, <1>6, <2>0, AioReadBack
  <2>2. e.reg[AioReg(s, 12)] = x.reg[AioReg(s, 12)]
    BY <1>1, <1>4, <1>6, <2>0, AioReadElse
  <2>3. e.reg[AioReg(s, 12)] % 65536 = 1 /\ (e.reg[AioReg(s, 5)] % 65536) + 1 = n
    BY <1>3, <2>1, <2>2, <2>5
  <2> QED
    BY <1>1, <2>3, AioChannelsAre
<1>9. AioLib!Settles(r) = [k \in {<<"Channels", s>>} |-> r.val] /\ AioLib!Forgets(r) = {<<"Single", s>>}
  BY DEF AioLib!Settles, AioLib!Forgets
<1>10. <<"Channels", s>> \in AioKeys
  BY <1>1 DEF AioKeys
<1>11. AioFrame(d, e, B, {<<"Channels", s>>} \cup AioLib!Forgets(r))
  <2>1. ASSUME NEW b, NEW t, <<b, t>> \in AioKeys \ ({<<"Channels", s>>} \cup AioLib!Forgets(r))
        PROVE  AioRegs(b, t) \cap B = {}
    BY <1>1, <1>9, <2>1, AioPart DEF B
  <2>2. \A t : AioSources(e, t) = AioSources(d, t)
    BY <1>7 DEF AioSources
  <2> QED  BY <1>7, <2>1, <2>2 DEF AioFrame
<1> QED
  BY <1>2, <1>7, <1>8, <1>9, <1>10, <1>11, AioSettlesOne

\* A call that sets what one register means.
AioMeanings == {<<"Times", 9>>, <<"Clock", 3>>, <<"Calibration", 32>>}
AioSetsOne(d, e, s, c, i, w) == <<c, i>> \in AioMeanings /\ AioChanged(d, e, s, i, w)

LEMMA AioMeant ==
  ASSUME NEW d \in AioDev, NEW s \in AioLib!TwoSides, NEW c, NEW i, NEW w, NEW e, AioSetsOne(d, e, s, c, i, w)
  PROVE  /\ <<c, s>> \in AioKeys
         /\ AioLeft(d, e, {AioReg(s, i)})
         /\ e.reg[AioReg(s, i)] = w
         /\ AioFrame(d, e, {AioReg(s, i)}, {<<c, s>>})
<1>0. <<c, i>> \in AioMeanings /\ AioChanged(d, e, s, i, w)
  BY DEF AioSetsOne
<1>1. i \in AioNumbers /\ <<c, s>> \in AioKeys
  BY <1>0 DEF AioMeanings, AioNumbers, AioKeys
<1>2. AioLeft(d, e, {AioReg(s, i)})
  <2>1. AioLeft(d, d, {})
    BY DEF AioLeft
  <2> QED  BY <1>0, <1>1, <2>1, AioOne
<1>3. e.gate = d.gate /\ e.route = d.route
  BY <1>0 DEF AioChanged
<1>4. e.reg[AioReg(s, i)] = w
  BY <1>0, <1>1, AioReadBack
<1>5. ASSUME NEW b, NEW t, <<b, t>> \in AioKeys \ {<<c, s>>}
      PROVE  AioReg(s, i) \notin AioRegs(b, t)
  BY <1>0, <1>5, AioPart DEF AioMeanings
<1>6. \A t : AioSources(e, t) = AioSources(d, t)
  BY <1>3 DEF AioSources
<1>7. AioFrame(d, e, {AioReg(s, i)}, {<<c, s>>})
  BY <1>3, <1>5, <1>6 DEF AioFrame
<1> QED
  BY <1>1, <1>2, <1>4, <1>7

LEMMA AioMeansOne ==
  ASSUME NEW d \in AioDev, NEW s \in AioLib!TwoSides, NEW c, NEW i, NEW w,
         NEW e, AioSetsOne(d, e, s, c, i, w), NEW v, AioLib!Answers(e, <<c, s>>) = {v},
         NEW r, AioLib!Settles(r) = [k \in {<<c, s>>} |-> v], AioLib!Forgets(r) = {}
  PROVE  AioGives(d, r, e)
<1>1. <<c, s>> \in AioKeys /\ AioLeft(d, e, {AioReg(s, i)}) /\ AioFrame(d, e, {AioReg(s, i)}, {<<c, s>>})
  BY AioMeant
<1>2. {<<c, s>>} \cup AioLib!Forgets(r) = {<<c, s>>}
  OBVIOUS
<1>3. AioFrame(d, e, {AioReg(s, i)}, {<<c, s>>} \cup AioLib!Forgets(r))
  BY <1>1, <1>2
<1> QED
  BY <1>1, <1>3, AioSettlesOne

LEMMA AioSetTimes ==
  ASSUME NEW d \in AioDev, NEW r, NEW s \in AioLib!Sides(d), r.ch = s, r.call = "Times",
         NEW n \in Nat \ {0}, r.val = <<n>>
  PROVE  AioGives(d, r, AioLib!Do(d, r))
<1> DEFINE e == AioIoctl(d, s, "SET_SAMPNUM", n - 1)
<1>1. s \in AioLib!TwoSides /\ AioLib!Has(d, s)
  BY DEF AioLib!Sides
<1>2. AioLib!Do(d, r) = e
  <2>0. r.val[1] = n
    OBVIOUS
  <2>1. AioLib!Do(d, r) = IF s = "AI" THEN AioLib!SetAiEventSamplingTimes(d, n) ELSE AioLib!SetAoEventSamplingTimes(d, n)
    BY <2>0 DEF AioLib!Do
  <2> QED
    BY <2>1 DEF AioLib!SetAiEventSamplingTimes, AioLib!SetAoEventSamplingTimes, AioIoctl
<1> HIDE DEF e
<1>3. AioChanged(d, e, s, 9, n - 1)
  <2>1. <<"SET_SAMPNUM", 9, 4>> \in AioSetters /\ n - 1 \in Int
    BY DEF AioSetters
  <2>2. AioChanged(d, e, s, 9, IF 4 = 4 THEN n - 1 ELSE (n - 1) % 65536)
    BY <1>1, <2>1, AioPut DEF e
  <2> QED  BY <2>2
<1>4. AioSetsOne(d, e, s, "Times", 9, n - 1)
  BY <1>3 DEF AioSetsOne, AioMeanings
<1>5. AioLib!Answers(e, <<"Times", s>>) = {r.val}
  <2>0. 9 \in AioNumbers
    BY DEF AioNumbers
  <2>1. e.reg[AioReg(s, 9)] = n - 1
    BY <1>1, <1>3, <2>0, AioReadBack
  <2> QED  BY <1>1, <2>1, AioTimes
<1>6. AioLib!Settles(r) = [k \in {<<"Times", s>>} |-> r.val] /\ AioLib!Forgets(r) = {}
  BY DEF AioLib!Settles, AioLib!Forgets
<1>7. AioGives(d, r, e)
  BY <1>1, <1>4, <1>5, <1>6, AioMeansOne
<1> QED
  BY <1>2, <1>7

LEMMA AioSetClock ==
  ASSUME NEW d \in AioDev, NEW r, NEW s \in AioLib!Sides(d), r.ch = s, r.call = "Clock",
         NEW n \in Nat \ {0}, r.val = <<25 * n>>
  PROVE  AioGives(d, r, AioLib!Do(d, r))
<1> DEFINE e == AioIoctl(d, s, "SET_CLOCK", n - 1)
<1>1. s \in AioLib!TwoSides /\ AioLib!Has(d, s)
  BY DEF AioLib!Sides
<1>2. AioLib!Do(d, r) = e
  <2>0. r.val[1] = 25 * n
    OBVIOUS
  <2>1. AioLib!Do(d, r) = IF s = "AI" THEN AioLib!SetAiSamplingClock(d, 25 * n) ELSE AioLib!SetAoSamplingClock(d, 25 * n)
    BY <2>0 DEF AioLib!Do
  <2>2. (25 * n - 25) \div 25 = n - 1 /\ (25 * n) \div 25 - 1 = n - 1
    OBVIOUS
  <2> QED
    BY <2>1, <2>2 DEF AioLib!SetAiSamplingClock, AioLib!SetAoSamplingClock, AioIoctl
<1> HIDE DEF e
<1>3. AioChanged(d, e, s, 3, n - 1)
  <2>1. <<"SET_CLOCK", 3, 4>> \in AioSetters /\ n - 1 \in Int
    BY DEF AioSetters
  <2>2. AioChanged(d, e, s, 3, IF 4 = 4 THEN n - 1 ELSE (n - 1) % 65536)
    BY <1>1, <2>1, AioPut DEF e
  <2> QED  BY <2>2
<1>4. AioSetsOne(d, e, s, "Clock", 3, n - 1)
  BY <1>3 DEF AioSetsOne, AioMeanings
<1>5. AioLib!Answers(e, <<"Clock", s>>) = {r.val}
  <2>0. 3 \in AioNumbers
    BY DEF AioNumbers
  <2>1. e.reg[AioReg(s, 3)] = n - 1
    BY <1>1, <1>3, <2>0, AioReadBack
  <2>2. (n - 1 + 1) * 25 = 25 * n
    OBVIOUS
  <2> QED  BY <1>1, <2>1, <2>2, AioClock
<1>6. AioLib!Settles(r) = [k \in {<<"Clock", s>>} |-> r.val] /\ AioLib!Forgets(r) = {}
  BY DEF AioLib!Settles, AioLib!Forgets
<1>7. AioGives(d, r, e)
  BY <1>1, <1>4, <1>5, <1>6, AioMeansOne
<1> QED
  BY <1>2, <1>7

LEMMA AioDirectClock ==
  ASSUME NEW d \in AioDev, NEW r, NEW s \in AioLib!Sides(d), r.ch = s, r.call = "DirectClock",
         NEW n \in Nat \ {0}, r.val = <<25 * n>>
  PROVE  AioGives(d, r, AioLib!Do(d, r))
<1> DEFINE e == AioLib!command(d, <<"EXT", AioLib!Base(s) + 3, 4>>, n - 1)
<1>1. s \in AioLib!TwoSides
  BY DEF AioLib!Sides
<1>2. AioLib!Do(d, r) = e
  <2>0. r.val[1] = 25 * n
    OBVIOUS
  <2>1. AioLib!Do(d, r) = AioLib!DirectCommandOutput(d, AioLib!Table(s).SETCLOCK, (25 * n) \div 25 - 1)
    BY <2>0 DEF AioLib!Do
  <2>2. (25 * n) \div 25 - 1 = n - 1
    OBVIOUS
  <2>3. AioLib!Table(s).SETCLOCK = <<"EXT", AioLib!Base(s) + 3, 4>>
    BY AioTables
  <2> QED
    BY <2>1, <2>2, <2>3 DEF AioLib!DirectCommandOutput
<1> HIDE DEF e
<1>3. AioChanged(d, e, s, 3, n - 1)
  <2>1. 3 \in AioNumbers /\ n - 1 \in Int
    BY DEF AioNumbers
  <2>2. /\ e \in AioDev /\ e.name = d.name /\ e.word = d.word /\ e.gate = d.gate /\ e.route = d.route
        /\ e.reg = [d.reg EXCEPT ![AioReg(s, 3)] = IF 4 = 4 THEN n - 1 ELSE (n - 1) % 65536]
    BY <1>1, <2>1, AioCommands DEF e
  <2> QED  BY <2>2 DEF AioChanged
<1>4. AioSetsOne(d, e, s, "Clock", 3, n - 1)
  BY <1>3 DEF AioSetsOne, AioMeanings
<1>5. AioLib!Answers(e, <<"Clock", s>>) = {r.val}
  <2>0. 3 \in AioNumbers
    BY DEF AioNumbers
  <2>1. e.reg[AioReg(s, 3)] = n - 1
    BY <1>1, <1>3, <2>0, AioReadBack
  <2>2. (n - 1 + 1) * 25 = 25 * n
    OBVIOUS
  <2> QED  BY <1>1, <2>1, <2>2, AioClock
<1> DEFINE f == [k \in {<<"Clock", s>>, <<"Given", s>>} |-> IF k[1] = "Clock" THEN r.val ELSE 1]
<1>6. AioLib!Settles(r) = f /\ AioLib!Forgets(r) = {}
  BY DEF AioLib!Settles, AioLib!Forgets
<1>7. DOMAIN f = {<<"Clock", s>>, <<"Given", s>>} /\ f[<<"Clock", s>>] = r.val /\ f[<<"Given", s>>] = 1
  OBVIOUS
<1>8. {<<"Clock", s>>, <<"Given", s>>} \subseteq AioKeys
  BY <1>1 DEF AioKeys
<1>9. AioLib!Answers(e, <<"Given", s>>) = {1}
  BY AioOthers
<1>10. \A k \in AioKeys \ {<<"Clock", s>>} : AioLib!Answers(e, k) = AioLib!Answers(d, k)
  <2>1. AioLeft(d, e, {AioReg(s, 3)}) /\ AioFrame(d, e, {AioReg(s, 3)}, {<<"Clock", s>>})
    BY <1>1, <1>4, AioMeant
  <2> QED  BY <2>1, AioKeeps
<1>11. e \in AioDev /\ e.name = d.name
  BY <1>3 DEF AioChanged
<1> HIDE DEF f
<1> QED
  BY <1>2, <1>5, <1>6, <1>7, <1>8, <1>9, <1>10, <1>11 DEF AioGives

\* The word of a correction holds its parts apart.
LEMMA AioUnpacks ==
  ASSUME NEW sel \in {0, 1}, NEW range \in 0..7, NEW data, AioLib!Byte(data)
  PROVE  /\ AioLib!AI_CALIBRATION_DATA(sel, range, data) \in Int
         /\ AioLib!AO_CALIBRATION_DATA(sel, 3, range, data) \in Int
         /\ AioLib!Unpacked(AioLib!AI_CALIBRATION_DATA(sel, range, data)) = <<sel, range, data>>
         /\ AioLib!Unpacked(AioLib!AO_CALIBRATION_DATA(sel, 3, range, data)) = <<sel, range, data>>
<1>1. data \in Int /\ data >= 0 /\ data < 256 /\ range \in Int /\ range >= 0 /\ range < 8 /\ sel \in Int /\ sel >= 0 /\ sel < 2
  BY DEF AioLib!Byte
<1>2. data % 256 = data /\ range % 8 = range /\ sel % 2 = sel
  BY <1>1
<1> DEFINE v == data * 65536 + range * 2 + sel
           w == v + 3 * 16
<1>3. AioLib!AI_CALIBRATION_DATA(sel, range, data) = v
  BY <1>2 DEF AioLib!AI_CALIBRATION_DATA
<1>4. AioLib!AO_CALIBRATION_DATA(sel, 3, range, data) = w
  BY <1>3 DEF AioLib!AO_CALIBRATION_DATA
<1>5. v \in Int /\ w \in Int
  BY <1>1
<1>6. v % 2 = sel /\ w % 2 = sel
  BY <1>1
<1>7. v \div 2 = data * 32768 + range /\ w \div 2 = data * 32768 + 24 + range
  BY <1>1
<1>8. (v \div 2) % 8 = range /\ (w \div 2) % 8 = range
  BY <1>1, <1>7
<1>9. v \div 65536 = data /\ w \div 65536 = data
  BY <1>1
<1> HIDE DEF v, w
<1> QED
  BY <1>2, <1>3, <1>4, <1>5, <1>6, <1>8, <1>9 DEF AioLib!Unpacked

LEMMA AioSetCalibration ==
  ASSUME NEW d \in AioDev, NEW r, NEW s \in AioLib!Sides(d), r.ch = s, r.call = "Calibration",
         NEW sel \in {0, 1}, NEW range \in 0..7, NEW data, AioLib!Byte(data), r.val = <<sel, range, data>>
  PROVE  AioGives(d, r, AioLib!Do(d, r))
<1> DEFINE w == IF s = "AI" THEN AioLib!AI_CALIBRATION_DATA(sel, range, data)
                            ELSE AioLib!AO_CALIBRATION_DATA(sel, 3, range, data)
           e == AioIoctl(d, s, "SET_CALIBRATION", w)
<1>1. s \in AioLib!TwoSides /\ AioLib!Has(d, s)
  BY DEF AioLib!Sides
<1>2. AioLib!Do(d, r) = e
  <2>0. r.val[1] = sel /\ r.val[2] = range /\ r.val[3] = data
    OBVIOUS
  <2>1. AioLib!Do(d, r) = IF s = "AI" THEN AioLib!SetAiCalibrationData(d, sel, range, data)
                                      ELSE AioLib!SetAoCalibrationData(d, sel, 3, range, data)
    BY <2>0 DEF AioLib!Do
  <2> QED
    BY <2>1 DEF AioLib!SetAiCalibrationData, AioLib!SetAoCalibrationData, AioIoctl
<1>w. w \in Int /\ AioLib!Unpacked(w) = r.val
  BY AioUnpacks
<1> HIDE DEF e, w
<1>3. AioChanged(d, e, s, 32, w)
  <2>1. <<"SET_CALIBRATION", 32, 4>> \in AioSetters
    BY DEF AioSetters
  <2>2. AioChanged(d, e, s, 32, IF 4 = 4 THEN w ELSE w % 65536)
    BY <1>1, <1>w, <2>1, AioPut DEF e
  <2> QED  BY <2>2
<1>4. AioSetsOne(d, e, s, "Calibration", 32, w)
  BY <1>3 DEF AioSetsOne, AioMeanings
<1>5. AioLib!Answers(e, <<"Calibration", s>>) = {r.val}
  <2>0. 32 \in AioNumbers
    BY DEF AioNumbers
  <2>1. e.reg[AioReg(s, 32)] = w
    BY <1>1, <1>3, <2>0, AioReadBack
  <2> QED  BY <1>1, <1>w, <2>1, AioCalibration
<1>6. AioLib!Settles(r) = [k \in {<<"Calibration", s>>} |-> r.val] /\ AioLib!Forgets(r) = {}
  BY DEF AioLib!Settles, AioLib!Forgets
<1>7. AioGives(d, r, e)
  BY <1>1, <1>4, <1>5, <1>6, AioMeansOne
<1> QED
  BY <1>2, <1>7

\* A single conversion uses the settings of the sampling.
AioSingleRegs(s) == {AioReg(s, 12), AioReg(s, 5), AioReg(s, 9), <<"ECU", 4096>>}
AioSingleLeaves(d, e, s, n) ==
  /\ AioLeft(d, e, AioSingleRegs(s)) /\ e.route = d.route
  /\ e.reg[AioReg(s, 12)] = 0 /\ e.reg[AioReg(s, 5)] = n /\ e.reg[AioReg(s, 9)] = 0

LEMMA AioSingleSetUp ==
  ASSUME NEW d \in AioDev, NEW s \in AioLib!TwoSides, AioLib!Has(d, s), NEW n, AioLib!Word(n),
         NEW x, x = AioIoctl(d, s, "SETTRANSFER_MODE", 0),
         NEW y, y = AioIoctl(x, s, "SETCHANNEL", n),
         NEW z, z = AioIoctl(y, s, "SET_SAMPNUM", 0)
  PROVE  AioSingleLeaves(d, z, s, n)
<1>1. n \in Int /\ n % 65536 = n /\ 0 % 65536 = 0
  BY DEF AioLib!Word
<1>2. 5 \in AioNumbers /\ 12 \in AioNumbers /\ 9 \in AioNumbers
  BY DEF AioNumbers
<1>3. AioChanged(d, x, s, 12, 0)
  <2>1. <<"SETTRANSFER_MODE", 12, 2>> \in AioSetters
    BY DEF AioSetters
  <2>2. AioChanged(d, x, s, 12, IF 2 = 4 THEN 0 ELSE 0 % 65536)
    BY <2>1, AioPut
  <2> QED  BY <1>1, <2>2
<1>4. x \in AioDev /\ AioLib!Has(x, s)
  BY <1>3, AioSameProduct DEF AioChanged
<1>5. AioChanged(x, y, s, 5, n)
  <2>1. <<"SETCHANNEL", 5, 2>> \in AioSetters
    BY DEF AioSetters
  <2>2. AioChanged(x, y, s, 5, IF 2 = 4 THEN n ELSE n % 65536)
    BY <1>1, <1>4, <2>1, AioPut
  <2> QED  BY <1>1, <2>2
<1>6. y \in AioDev /\ AioLib!Has(y, s)
  BY <1>4, <1>5, AioSameProduct DEF AioChanged
<1>7. AioChanged(y, z, s, 9, 0)
  <2>1. <<"SET_SAMPNUM", 9, 4>> \in AioSetters
    BY DEF AioSetters
  <2>2. AioChanged(y, z, s, 9, IF 4 = 4 THEN 0 ELSE 0 % 65536)
    BY <1>6, <2>1, AioPut
  <2> QED  BY <2>2
<1> DEFINE A == AioSingleRegs(s)
<1>8. AioReg(s, 12) \in A /\ AioReg(s, 5) \in A /\ AioReg(s, 9) \in A
  BY DEF AioSingleRegs
<1> HIDE DEF A
<1>9. AioLeft(d, d, A)
  BY DEF AioLeft
<1>10. AioLeft(d, x, A)
  BY <1>2, <1>3, <1>8, <1>9, AioOne
<1>11. AioLeft(d, y, A)
  BY <1>2, <1>5, <1>8, <1>10, AioOne
<1>12. AioLeft(d, z, A)
  BY <1>2, <1>7, <1>8, <1>11, AioOne
<1>13. z.route = d.route
  BY <1>3, <1>5, <1>7 DEF AioChanged
<1>14. z.reg[AioReg(s, 9)] = 0
  BY <1>2, <1>6, <1>7, AioReadBack
<1>15. y.reg[AioReg(s, 5)] = n
  BY <1>2, <1>4, <1>5, AioReadBack
<1>16. x.reg[AioReg(s, 12)] = 0
  BY <1>2, <1>3, AioReadBack
<1>17. z.reg[AioReg(s, 5)] = y.reg[AioReg(s, 5)]
  BY <1>2, <1>6, <1>7, AioReadElse
<1>18. y.reg[AioReg(s, 12)] = x.reg[AioReg(s, 12)]
  BY <1>2, <1>4, <1>5, AioReadElse
<1>19. z.reg[AioReg(s, 12)] = y.reg[AioReg(s, 12)]
  BY <1>2, <1>6, <1>7, AioReadElse
<1> QED
  BY <1>12, <1>13, <1>14, <1>15, <1>16, <1>17, <1>18, <1>19 DEF A, AioSingleLeaves

\* Opening and shutting the gate leaves what had been set up.
LEMMA AioSingleGate ==
  ASSUME NEW d \in AioDev, NEW s \in AioLib!TwoSides, NEW n, NEW x, AioSingleLeaves(d, x, s, n), NEW i \in {1, 2}, NEW e, e = AioMove(x, s, i)
  PROVE  AioSingleLeaves(d, e, s, n)
<1>1. x \in AioDev
  BY DEF AioSingleLeaves, AioLeft
<1>2. e \in AioDev /\ e.name = x.name /\ e.word = x.word /\ e.route = x.route /\ e.reg = x.reg
  BY <1>1, AioGate
<1> QED
  BY <1>2 DEF AioSingleLeaves, AioLeft

LEMMA AioSingleFlag ==
  ASSUME NEW d \in AioDev, NEW s \in AioLib!TwoSides, NEW n, NEW x, AioSingleLeaves(d, x, s, n),
         NEW e, e = AioLib!ioctl_ecu(x, "SET_INTERRUPT_FLAG_AI", 32768)
  PROVE  AioSingleLeaves(d, e, s, n)
<1> DEFINE a == <<"ECU", 4096>>
           v == 32768 % 65536
<1>1. x \in AioDev /\ v \in Int /\ a \in AioLib!Registers
  BY AioRegisters DEF AioSingleLeaves, AioLeft
<1>2. AioLib!EcuCommand.AI_INTERRUPT_FLAG = <<"ECU", 4096, 2>> /\ AioLib!EcuCommand.SETINPUTSIGNAL = <<"ECU", 3, 4>>
  BY DEF AioLib!EcuCommand, AioLib!Ecu
<1>3. e = AioLib!command(x, <<"ECU", 4096, 2>>, 32768)
  BY <1>2 DEF AioLib!ioctl_ecu
<1>4. e = [x EXCEPT !.reg[a] = v]
  BY <1>2, <1>3 DEF AioLib!command
<1> HIDE DEF a, v
<1>5. /\ e \in AioDev /\ e.name = x.name /\ e.word = x.word /\ e.route = x.route
      /\ e.reg = [x.reg EXCEPT ![a] = v]
  BY <1>1, <1>4, SMT DEF AioDev
<1>6. x.reg \in [AioLib!Registers -> Int]
  BY <1>1 DEF AioDev
<1>7. \A b \in AioLib!Registers \ {a} : e.reg[b] = x.reg[b]
  BY <1>5, <1>6
<1>8. \A i \in AioNumbers : AioReg(s, i) \in AioLib!Registers \ {a}
  BY AioApart, AioRegisters DEF a
<1>9. e.reg[AioReg(s, 12)] = x.reg[AioReg(s, 12)] /\ e.reg[AioReg(s, 5)] = x.reg[AioReg(s, 5)] /\ e.reg[AioReg(s, 9)] = x.reg[AioReg(s, 9)]
  BY <1>7, <1>8 DEF AioNumbers
<1>10. a \in AioSingleRegs(s)
  BY DEF a, AioSingleRegs
<1>11. AioLeft(d, e, AioSingleRegs(s))
  BY <1>5, <1>7, <1>10 DEF AioSingleLeaves, AioLeft
<1> QED
  BY <1>5, <1>9, <1>11 DEF AioSingleLeaves

LEMMA AioSetSingle ==
  ASSUME NEW d \in AioDev, NEW r, NEW s \in AioLib!Sides(d), r.ch = s, r.call = "Single",
         NEW n, AioLib!Word(n), r.val = <<n>>
  PROVE  AioGives(d, r, AioLib!Do(d, r))
<1> DEFINE x == AioIoctl(d, s, "SETTRANSFER_MODE", 0)
           y == AioIoctl(x, s, "SETCHANNEL", n)
           z == AioIoctl(y, s, "SET_SAMPNUM", 0)
           w == AioIoctl(z, s, "START", 0)
           e == AioLib!Do(d, r)
<1> SUFFICES AioGives(d, r, e)
  OBVIOUS
<1>1. s \in AioLib!TwoSides /\ AioLib!Has(d, s)
  BY DEF AioLib!Sides
<1>2. e = IF s = "AI" THEN AioLib!SingleAi(d, n) ELSE AioLib!SingleAo(d, n)
  <2>0. r.val[1] = n
    OBVIOUS
  <2> QED  BY <2>0 DEF AioLib!Do
<1>3. s = "AO" => e = w
  BY <1>2 DEF AioLib!SingleAo, AioLib!set_exchange, AioLib!ioctl_of, AioLib!SetAoEventSamplingTimes, AioIoctl
<1>4. s = "AI" => e = AioIoctl(AioLib!ioctl_ecu(w, "SET_INTERRUPT_FLAG_AI", 32768), s, "STOP", 0)
  BY <1>2 DEF AioLib!SingleAi, AioLib!set_exchange, AioLib!ioctl_of, AioLib!SetAiEventSamplingTimes, AioIoctl
<1> HIDE DEF x, y, z, w, e
<1>5. AioSingleLeaves(d, z, s, n)
  BY <1>1, AioSingleSetUp DEF x, y, z
<1>6. AioSingleLeaves(d, w, s, n)
  <2>1. AioLib!Has(z, s)
    BY <1>1, <1>5, AioSameProduct DEF AioSingleLeaves, AioLeft
  <2>2. w = AioMove(z, s, 1)
    BY <1>1, <2>1, AioIoctls DEF w, AioMove
  <2> QED  BY <1>1, <1>5, <2>2, AioSingleGate
<1>7. AioSingleLeaves(d, e, s, n)
  <2>1. CASE s = "AO"
    BY <1>3, <1>6, <2>1
  <2>2. CASE s = "AI"
    <3> DEFINE u == AioLib!ioctl_ecu(w, "SET_INTERRUPT_FLAG_AI", 32768)
    <3>1. AioSingleLeaves(d, u, s, n)
      BY <1>1, <1>6, AioSingleFlag
    <3> HIDE DEF u
    <3>2. AioLib!Has(u, s)
      BY <1>1, <3>1, AioSameProduct DEF AioSingleLeaves, AioLeft
    <3>3. e = AioIoctl(u, s, "STOP", 0)
      BY <1>4, <2>2 DEF u
    <3>4. e = AioMove(u, s, 2)
      BY <1>1, <3>2, <3>3, AioIoctls DEF AioMove
    <3> QED  BY <1>1, <3>1, <3>4, AioSingleGate
  <2> QED  BY <1>1, <2>1, <2>2 DEF AioLib!TwoSides
<1> DEFINE f == [k \in {<<"Times", s>>, <<"Single", s>>} |-> IF k[1] = "Times" THEN <<1>> ELSE r.val]
<1>8. AioLib!Settles(r) = f /\ AioLib!Forgets(r) = {<<"Channels", s>>, <<"Gate", "ECU">>}
  BY DEF AioLib!Settles, AioLib!Forgets
<1>9. DOMAIN f = {<<"Times", s>>, <<"Single", s>>} /\ f[<<"Times", s>>] = <<1>> /\ f[<<"Single", s>>] = r.val
  OBVIOUS
<1>10. {<<"Times", s>>, <<"Single", s>>} \subseteq AioKeys
  BY <1>1 DEF AioKeys
<1>11. AioLib!Answers(e, <<"Times", s>>) = {<<1>>}
  <2>1. e.reg[AioReg(s, 9)] = 0
    BY <1>7 DEF AioSingleLeaves
  <2>2. 0 + 1 = 1
    OBVIOUS
  <2> QED  BY <1>1, <2>1, <2>2, AioTimes
<1>12. AioLib!Answers(e, <<"Single", s>>) = {r.val}
  <2>1. e.reg[AioReg(s, 5)] % 65536 = n /\ e.reg[AioReg(s, 12)] % 65536 = 0
    BY <1>7 DEF AioSingleLeaves, AioLib!Word
  <2> QED  BY <1>1, <2>1, AioSingleIs
<1> DEFINE K == {<<"Times", s>>, <<"Single", s>>, <<"Channels", s>>, <<"Gate", "ECU">>}
<1>13. AioFrame(d, e, AioSingleRegs(s), K)
  <2>1. ASSUME NEW b, NEW t, <<b, t>> \in AioKeys \ K
        PROVE  AioRegs(b, t) \cap AioSingleRegs(s) = {} /\ b # "Gate"
    <3>1. b # "Gate"
      BY <2>1 DEF AioKeys
    <3>2. <<b, t>> \in AioKeys
      BY <2>1
    <3>3. AioReg(s, 5) \notin AioRegs(b, t) /\ AioReg(s, 12) \notin AioRegs(b, t) /\ AioReg(s, 9) \notin AioRegs(b, t)
      BY <1>1, <2>1, AioPart
    <3>4. <<"ECU", 4096>> \notin AioRegs(b, t)
      BY <1>1, <2>1, AioPart
    <3> QED  BY <3>1, <3>3, <3>4 DEF AioSingleRegs
  <2>2. \A t : AioSources(e, t) = AioSources(d, t)
    BY <1>7 DEF AioSources, AioSingleLeaves
  <2> QED  BY <2>1, <2>2 DEF AioFrame
<1>14. \A k \in AioKeys \ K : AioLib!Answers(e, k) = AioLib!Answers(d, k)
  BY <1>7, <1>13, AioKeeps DEF AioSingleLeaves
<1>15. e \in AioDev /\ e.name = d.name
  BY <1>7 DEF AioSingleLeaves, AioLeft
<1> HIDE DEF f
<1> QED
  BY <1>8, <1>9, <1>10, <1>11, <1>12, <1>14, <1>15 DEF AioGives

LEMMA AioGateGives ==
  ASSUME NEW d \in AioDev, NEW e, e \in AioDev, e.name = d.name, e.word = d.word, e.route = d.route, e.reg = d.reg,
         NEW r, AioLib!Settles(r) = [k \in {<<"Gate", "ECU">>} |-> e.gate], AioLib!Forgets(r) = {}
  PROVE  AioGives(d, r, e)
<1>1. AioLeft(d, e, {})
  BY DEF AioLeft
<1>2. <<"Gate", "ECU">> \in AioKeys
  BY DEF AioKeys
<1>3. AioLib!Answers(e, <<"Gate", "ECU">>) = {e.gate}
  BY AioOthers
<1>4. AioFrame(d, e, {}, {<<"Gate", "ECU">>} \cup AioLib!Forgets(r))
  <2>1. ASSUME NEW b, NEW t, <<b, t>> \in AioKeys \ {<<"Gate", "ECU">>}
        PROVE  b # "Gate"
    BY <2>1 DEF AioKeys
  <2>2. \A t : AioSources(e, t) = AioSources(d, t)
    BY DEF AioSources
  <2> QED  BY <2>1, <2>2 DEF AioFrame
<1> QED
  BY <1>1, <1>2, <1>3, <1>4, AioSettlesOne

LEMMA AioDirectGate ==
  ASSUME NEW d \in AioDev, NEW r, NEW s \in AioLib!Sides(d), r.ch = s, r.call = "DirectGate", r.val \in {<< 0 >>, << 1 >>}
  PROVE  AioGives(d, r, AioLib!Do(d, r))
<1> DEFINE i == IF r.val = <<1>> THEN 1 ELSE 2
           e == AioMove(d, s, i)
<1>1. s \in AioLib!TwoSides /\ i \in {1, 2}
  BY DEF AioLib!Sides
<1>2. AioLib!Do(d, r) = e
  <2>1. AioLib!Do(d, r) = AioLib!DirectCommandCall(d, IF r.val = <<1>> THEN AioLib!Table(s).GATE_OPEN ELSE AioLib!Table(s).FORCE_STOP)
    BY DEF AioLib!Do
  <2>2. CASE r.val = <<1>>
    BY <2>1, <2>2, AioTables DEF AioLib!DirectCommandCall, AioMove
  <2>3. CASE r.val # <<1>>
    BY <2>1, <2>3, AioTables DEF AioLib!DirectCommandCall, AioMove
  <2> QED  BY <2>2, <2>3
<1>3. (i = 1) <=> (r.val = <<1>>)
  OBVIOUS
<1> HIDE DEF e, i
<1>4. /\ e \in AioDev /\ e.name = d.name /\ e.word = d.word /\ e.route = d.route /\ e.reg = d.reg
      /\ e.gate = (IF i = 1 THEN "open" ELSE "shut")
  BY <1>1, AioGate DEF e
<1>5. AioLib!Settles(r) = [k \in {<<"Gate", "ECU">>} |-> IF r.val = <<1>> THEN "open" ELSE "shut"] /\ AioLib!Forgets(r) = {}
  BY DEF AioLib!Settles, AioLib!Forgets
<1>6. AioLib!Settles(r) = [k \in {<<"Gate", "ECU">>} |-> e.gate]
  BY <1>3, <1>4, <1>5
<1>7. AioGives(d, r, e)
  BY <1>4, <1>5, <1>6, AioGateGives
<1> QED
  BY <1>2, <1>7

LEMMA AioExit ==
  ASSUME NEW d \in AioDev, NEW r, r.call = "Exit"
  PROVE  AioGives(d, r, AioLib!Do(d, r))
<1> DEFINE e == AioLib!Do(d, r)
           p == AioLib!find_analog_device(d)
<1>1. e = AioLib!ExitIoctl(d)
  BY DEF AioLib!Do, AioLib!Exit
<1>2. PICK s \in AioLib!TwoSides : e = AioMove(d, s, 2)
  <2>1. (p.ai = <<16, 8>> /\ p.ao = <<0, 0>>) \/ (p.ai = <<0, 0>> /\ p.ao = <<16, 4>>)
    BY AioProduct
  <2>2. AioLib!Table("AI").FORCE_STOP = <<"EXT", AioLib!Base("AI") + 2, 0>> /\ AioLib!Table("AO").FORCE_STOP = <<"EXT", AioLib!Base("AO") + 2, 0>>
    BY AioTables
  <2>3. AioLib!ExitIoctl(d) = LET ai == IF p.ai[2] > 0 THEN AioLib!Called(d, AioLib!Table("AI").FORCE_STOP) ELSE d
                              IN  IF p.ao[2] > 0 THEN AioLib!Called(ai, AioLib!Table("AO").FORCE_STOP) ELSE ai
    BY DEF AioLib!ExitIoctl
  <2> HIDE DEF e, p
  <2>4. CASE p.ai = <<16, 8>> /\ p.ao = <<0, 0>>
    <3>1. p.ai[2] > 0 /\ ~(p.ao[2] > 0)
      BY <2>4
    <3>2. e = AioMove(d, "AI", 2)
      BY <1>1, <2>2, <2>3, <3>1 DEF AioMove
    <3> QED  BY <3>2 DEF AioLib!TwoSides
  <2>5. CASE p.ai = <<0, 0>> /\ p.ao = <<16, 4>>
    <3>1. ~(p.ai[2] > 0) /\ p.ao[2] > 0
      BY <2>5
    <3>2. e = AioMove(d, "AO", 2)
      BY <1>1, <2>2, <2>3, <3>1 DEF AioMove
    <3> QED  BY <3>2 DEF AioLib!TwoSides
  <2> QED  BY <2>1, <2>4, <2>5
<1> HIDE DEF e
<1>3. /\ e \in AioDev /\ e.name = d.name /\ e.word = d.word /\ e.route = d.route /\ e.reg = d.reg
      /\ e.gate = (IF 2 = 1 THEN "open" ELSE "shut")
  <2>1. 2 \in {1, 2}
    OBVIOUS
  <2> QED  BY <1>2, <2>1, AioGate
<1>4. AioLib!Settles(r) = [k \in {<<"Gate", "ECU">>} |-> e.gate] /\ AioLib!Forgets(r) = {}
  BY <1>3 DEF AioLib!Settles, AioLib!Forgets
<1>5. AioGives(d, r, e)
  BY <1>3, <1>4, AioGateGives
<1> QED
  BY <1>5 DEF e

LEMMA AioInputs == \A dest \in AioLib!Inputs : AioLib!Word(dest) /\ AioLib!Word(AioLib!FirstSource(dest))
BY DEF AioLib!Inputs, AioLib!Word, AioLib!FirstSource

LEMMA AioSetRoute ==
  ASSUME NEW d \in AioDev, NEW r, r.call = "Route", NEW dest \in AioLib!Inputs, NEW src, AioLib!Word(src), r.val = <<dest, src>>
  PROVE  AioGives(d, r, AioLib!Do(d, r))
<1> DEFINE e == AioLib!Do(d, r)
<1>1. e = AioLib!SetEcuSignal(d, dest, src) /\ AioLib!Settles(r) = [k \in {<<"Route", dest>>} |-> src] /\ AioLib!Forgets(r) = {}
  <2>1. r.val[1] = dest /\ r.val[2] = src
    OBVIOUS
  <2> QED  BY <2>1 DEF AioLib!Do, AioLib!Settles, AioLib!Forgets
<1> HIDE DEF e
<1>2. /\ e \in AioDev /\ e.name = d.name /\ e.word = d.word /\ e.gate = d.gate /\ e.reg = d.reg
      /\ AioSources(e, dest) = {src}
      /\ \A other : other # dest => AioSources(e, other) = AioSources(d, other)
  <2>1. AioLib!Word(dest)
    BY AioInputs
  <2> QED  BY <1>1, <2>1, AioConnects
<1>3. AioLeft(d, e, {})
  BY <1>2 DEF AioLeft
<1>4. <<"Route", dest>> \in AioKeys
  BY DEF AioKeys
<1>5. AioLib!Answers(e, <<"Route", dest>>) = {src}
  BY <1>2, AioOthers
<1>6. AioFrame(d, e, {}, {<<"Route", dest>>} \cup AioLib!Forgets(r))
  BY <1>2 DEF AioFrame
<1>7. AioGives(d, r, e)
  BY <1>1, <1>3, <1>4, <1>5, <1>6, AioSettlesOne
<1> QED
  BY <1>7 DEF e

\* The initialisation connects one input after the other.
AioConnected(d, x, S) ==
  /\ x \in AioDev /\ x.name = d.name /\ x.word = d.word
  /\ \A t \in S : AioSources(x, t) = {AioLib!FirstSource(t)}

LEMMA AioConnectsOne ==
  ASSUME NEW d, NEW x, NEW S, AioConnected(d, x, S), NEW dest \in AioLib!Inputs
  PROVE  AioConnected(d, AioLib!Connect(x, dest), S \cup {dest})
<1> DEFINE e == AioLib!Connect(x, dest)
           src == AioLib!FirstSource(dest)
<1>1. e = AioLib!SetEcuSignal(x, dest, src)
  BY DEF AioLib!Connect
<1>2. x \in AioDev /\ AioLib!Word(dest) /\ AioLib!Word(src)
  BY AioInputs DEF AioConnected
<1> HIDE DEF e, src
<1>3. /\ e \in AioDev /\ e.name = x.name /\ e.word = x.word
      /\ AioSources(e, dest) = {src}
      /\ \A other : other # dest => AioSources(e, other) = AioSources(x, other)
  BY <1>1, <1>2, AioConnects
<1>4. \A t \in S \cup {dest} : AioSources(e, t) = {AioLib!FirstSource(t)}
  BY <1>3 DEF AioConnected, src
<1> QED
  BY <1>3, <1>4 DEF AioConnected, e

LEMMA AioInitIoctl ==
  ASSUME NEW d \in AioDev
  PROVE  AioConnected(d, AioLib!InitIoctl(d), {})
<1> DEFINE p == AioLib!find_analog_device(d)
           ecu == AioLib!Called(d, AioLib!EcuCommand.INIT)
           ai == IF p.ai[2] > 0 THEN AioLib!Called(ecu, AioLib!Table("AI").INIT) ELSE ecu
           ao == IF p.ao[2] > 0 THEN AioLib!Called(ai, AioLib!Table("AO").INIT) ELSE ai
           e == AioLib!Called(ao, AioLib!MemInit)
           Same(x) == x \in AioDev /\ x.name = d.name /\ x.word = d.word
<1>1. Same(ecu)
  BY AioClears
<1> HIDE DEF ecu
<1>2. Same(ai)
  <2> DEFINE x == AioLib!Called(ecu, AioLib!Table("AI").INIT)
  <2>1. Same(x)
    BY <1>1, AioClears
  <2> HIDE DEF x
  <2>2. ai = x \/ ai = ecu
    BY DEF x
  <2> QED  BY <1>1, <2>1, <2>2
<1> HIDE DEF ai
<1>3. Same(ao)
  <2> DEFINE x == AioLib!Called(ai, AioLib!Table("AO").INIT)
  <2>1. Same(x)
    BY <1>2, AioClears
  <2> HIDE DEF x
  <2>2. ao = x \/ ao = ai
    BY DEF x
  <2> QED  BY <1>2, <2>1, <2>2
<1> HIDE DEF ao
<1>4. Same(e)
  BY <1>3, AioClears
<1>5. AioLib!InitIoctl(d) = e
  BY DEF AioLib!InitIoctl, ecu, ai, ao
<1> HIDE DEF e
<1> QED
  BY <1>4, <1>5 DEF AioConnected

LEMMA AioInit ==
  ASSUME NEW d \in AioDev, NEW r, r.call = "Init"
  PROVE  AioGives(d, r, AioLib!Do(d, r))
<1> DEFINE a == AioLib!InitIoctl(d)
           b == AioLib!Connect(a, 4)
           c == AioLib!Connect(b, 0)
           g == AioLib!Connect(c, 2)
           h == AioLib!Connect(g, 36)
           i == AioLib!Connect(h, 32)
           e == AioLib!Connect(i, 34)
<1>1. AioLib!Do(d, r) = e
  BY DEF AioLib!Do, AioLib!Init
<1>2. 4 \in AioLib!Inputs /\ 0 \in AioLib!Inputs /\ 2 \in AioLib!Inputs /\ 36 \in AioLib!Inputs /\ 32 \in AioLib!Inputs /\ 34 \in AioLib!Inputs
  BY DEF AioLib!Inputs
<1>3. AioConnected(d, a, {})
  BY AioInitIoctl
<1> HIDE DEF a
<1>4. AioConnected(d, b, {} \cup {4})
  BY <1>2, <1>3, AioConnectsOne
<1> HIDE DEF b
<1>5. AioConnected(d, c, {} \cup {4} \cup {0})
  BY <1>2, <1>4, AioConnectsOne
<1> HIDE DEF c
<1>6. AioConnected(d, g, {} \cup {4} \cup {0} \cup {2})
  BY <1>2, <1>5, AioConnectsOne
<1> HIDE DEF g
<1>7. AioConnected(d, h, {} \cup {4} \cup {0} \cup {2} \cup {36})
  BY <1>2, <1>6, AioConnectsOne
<1> HIDE DEF h
<1>8. AioConnected(d, i, {} \cup {4} \cup {0} \cup {2} \cup {36} \cup {32})
  BY <1>2, <1>7, AioConnectsOne
<1> HIDE DEF i
<1>9. AioConnected(d, e, {} \cup {4} \cup {0} \cup {2} \cup {36} \cup {32} \cup {34})
  BY <1>2, <1>8, AioConnectsOne
<1> HIDE DEF e
<1>10. /\ e \in AioDev /\ e.name = d.name /\ e.word = d.word
       /\ \A t \in AioLib!Inputs : AioSources(e, t) = {AioLib!FirstSource(t)}
  BY <1>9 DEF AioConnected, AioLib!Inputs
<1> DEFINE R == {<<"Route", dest>> : dest \in AioLib!Inputs}
           f == [k \in R |-> AioLib!FirstSource(k[2])]
           F == {<<x, s>> : x \in {"Channels", "Times", "Clock", "Calibration", "Single"}, s \in AioLib!TwoSides} \cup {<<"Gate", "ECU">>}
<1>11. AioLib!Settles(r) = f /\ AioLib!Forgets(r) = F
  BY DEF AioLib!Settles, AioLib!Forgets
<1>12. DOMAIN f = R /\ R \subseteq AioKeys
  BY DEF AioKeys
<1>13. \A k \in R : AioLib!Answers(e, k) = {f[k]}
  <2> TAKE k \in R
  <2>1. PICK dest \in AioLib!Inputs : k = <<"Route", dest>>
    OBVIOUS
  <2>2. AioLib!Answers(e, k) = {AioLib!FirstSource(dest)}
    BY <1>10, <2>1, AioOthers
  <2> QED  BY <2>1, <2>2
<1>14. AioFrame(d, e, AioLib!Registers, R \cup F)
  <2>1. ASSUME NEW x, NEW t, <<x, t>> \in AioKeys \ (R \cup F)
        PROVE  AioRegs(x, t) = {} /\ x # "Gate" /\ x # "Route"
    BY <2>1 DEF AioKeys, AioRegs
  <2> HIDE DEF R, F
  <2> QED  BY <2>1 DEF AioFrame
<1>15. AioLeft(d, e, AioLib!Registers)
  BY <1>10 DEF AioLeft
<1>16. \A k \in AioKeys \ (R \cup F) : AioLib!Answers(e, k) = AioLib!Answers(d, k)
  BY <1>14, <1>15, AioKeeps
<1> HIDE DEF R, F, f
<1> QED
  BY <1>1, <1>10, <1>11, <1>12, <1>13, <1>16 DEF AioGives

LEMMA AioOutp ==
  ASSUME NEW d \in AioDev, NEW r, r.call \in {"Outp", "EcuOutp", "CommandOutp"}
  PROVE  AioGives(d, r, AioLib!Do(d, r))
<1>1. AioLib!Do(d, r) = d
  BY DEF AioLib!Do, AioLib!Outp, AioLib!EcuOutp, AioLib!CommandOutp, AioLib!Fault
<1>2. AioLib!Settles(r) = <<>>
  BY DEF AioLib!Settles
<1>3. DOMAIN AioLib!Settles(r) = {}
  BY <1>2
<1> QED
  BY <1>1, <1>3 DEF AioGives

\* Whatever is asked of an analog device it then does, and all else as before.
LEMMA AioStep ==
  ASSUME NEW d \in AioDev, NEW r, AioLib!Legal(d, r)
  PROVE  AioGives(d, r, AioLib!Do(d, r))
<1> DEFINE Goal == AioGives(d, r, AioLib!Do(d, r))
           One == r.val = <<r.val[1]>>
           Two == r.val = <<r.val[1], r.val[2]>>
           Three == r.val = <<r.val[1], r.val[2], r.val[3]>>
<1> SUFFICES Goal
  OBVIOUS
<1>0. \/ /\ r.ch \in AioLib!Sides(d)
         /\ \/ r.call = "Channels" /\ One /\ r.val[1] \in Nat \ {0} /\ AioLib!Word(r.val[1] - 1)
            \/ r.call = "Times" /\ One /\ r.val[1] \in Nat \ {0}
            \/ r.call \in {"Clock", "DirectClock"} /\ One /\ AioLib!Clock(r.val[1])
            \/ r.call = "Calibration" /\ Three /\ r.val[1] \in {0, 1} /\ r.val[2] \in 0..7 /\ AioLib!Byte(r.val[3])
            \/ r.call = "Single" /\ One /\ AioLib!Word(r.val[1])
            \/ r.call = "DirectGate" /\ r.val \in {<<0>>, <<1>>}
      \/ /\ r.ch = "ECU"
         /\ \/ r.call = "Route" /\ Two /\ r.val[1] \in AioLib!Inputs /\ AioLib!Word(r.val[2])
            \/ r.call \in {"Init", "Exit", "Outp", "EcuOutp", "CommandOutp"}
  BY DEF AioLib!Legal
<1>1. One => (\E n : n = r.val[1] /\ r.val = <<n>>)
  OBVIOUS
<1>2. Two => (\E m, n : m = r.val[1] /\ n = r.val[2] /\ r.val = <<m, n>>)
  OBVIOUS
<1>3. Three => (\E m, n, o : m = r.val[1] /\ n = r.val[2] /\ o = r.val[3] /\ r.val = <<m, n, o>>)
  OBVIOUS
<1> HIDE DEF Goal, One, Two, Three
<1>4. CASE /\ r.ch \in AioLib!Sides(d)
           /\ r.call = "Channels" /\ One /\ r.val[1] \in Nat \ {0} /\ AioLib!Word(r.val[1] - 1)
  <2>1. PICK n : n = r.val[1] /\ r.val = <<n>>
    BY <1>1, <1>4
  <2>2. AioLib!Word(n - 1)
    BY <1>4, <2>1
  <2>3. n \in Int
    BY <1>4, <2>1
  <2> QED  BY <1>4, <2>1, <2>2, <2>3, AioSetChannels DEF Goal
<1>5. CASE r.ch \in AioLib!Sides(d) /\ r.call = "Times" /\ One /\ r.val[1] \in Nat \ {0}
  <2>1. PICK n : n = r.val[1] /\ r.val = <<n>>
    BY <1>1, <1>5
  <2> QED  BY <1>5, <2>1, AioSetTimes DEF Goal
<1>6. CASE r.ch \in AioLib!Sides(d) /\ r.call \in {"Clock", "DirectClock"} /\ One /\ AioLib!Clock(r.val[1])
  <2>1. PICK n : n = r.val[1] /\ r.val = <<n>>
    BY <1>1, <1>6
  <2>2. PICK m \in Nat \ {0} : r.val = <<25 * m>>
    BY <1>6, <2>1 DEF AioLib!Clock
  <2>3. CASE r.call = "Clock"
    BY <1>6, <2>2, <2>3, AioSetClock DEF Goal
  <2>4. CASE r.call = "DirectClock"
    BY <1>6, <2>2, <2>4, AioDirectClock DEF Goal
  <2> QED  BY <1>6, <2>3, <2>4
<1>7. CASE /\ r.ch \in AioLib!Sides(d) /\ r.call = "Calibration" /\ Three
           /\ r.val[1] \in {0, 1} /\ r.val[2] \in 0..7 /\ AioLib!Byte(r.val[3])
  <2>1. PICK m, n, o : m = r.val[1] /\ n = r.val[2] /\ o = r.val[3] /\ r.val = <<m, n, o>>
    BY <1>3, <1>7
  <2> QED  BY <1>7, <2>1, AioSetCalibration DEF Goal
<1>8. CASE r.ch \in AioLib!Sides(d) /\ r.call = "Single" /\ One /\ AioLib!Word(r.val[1])
  <2>1. PICK n : n = r.val[1] /\ r.val = <<n>>
    BY <1>1, <1>8
  <2> QED  BY <1>8, <2>1, AioSetSingle DEF Goal
<1>9. CASE r.ch \in AioLib!Sides(d) /\ r.call = "DirectGate" /\ r.val \in {<<0>>, <<1>>}
  BY <1>9, AioDirectGate DEF Goal
<1>10. CASE r.call = "Route" /\ Two /\ r.val[1] \in AioLib!Inputs /\ AioLib!Word(r.val[2])
  <2>1. PICK m, n : m = r.val[1] /\ n = r.val[2] /\ r.val = <<m, n>>
    BY <1>2, <1>10
  <2> QED  BY <1>10, <2>1, AioSetRoute DEF Goal
<1>11. CASE r.call \in {"Init", "Exit", "Outp", "EcuOutp", "CommandOutp"}
  BY <1>11, AioInit, AioExit, AioOutp DEF Goal
<1> QED
  BY <1>0, <1>4, <1>5, <1>6, <1>7, <1>8, <1>9, <1>10, <1>11

\* What a program is told of the product when it starts.
LEMMA AioBoot ==
  ASSUME NEW name \in AioLib!Names
  PROVE  /\ AioLib!Boot(name) \in AioDev /\ AioLib!Boot(name).name = name
         /\ DOMAIN AioLib!Facts(AioLib!Boot(name)) \subseteq AioKeys
         /\ \A k \in DOMAIN AioLib!Facts(AioLib!Boot(name)) :
              AioLib!Answers(AioLib!Boot(name), k) = {AioLib!Facts(AioLib!Boot(name))[k]}
<1> DEFINE d == AioLib!Boot(name)
           f == AioLib!Facts(d)
           p == AioLib!find_analog_device(d)
<1>1. d \in AioDev /\ d.name = name
  <2>1. [c \in AioLib!Registers |-> 0] \in [AioLib!Registers -> Int]
    OBVIOUS
  <2>2. [w \in AioLib!Words |-> w * 16 + 3] \in [AioLib!Words -> Int]
    BY DEF AioLib!Words, AioLib!AISTATUS, AioLib!AOSTATUS, AioLib!MEMSTATUS
  <2> DEFINE reg == [c \in AioLib!Registers |-> 0]
             word == [w \in AioLib!Words |-> w * 16 + 3]
  <2>3. d = [gate |-> "shut", name |-> name, reg |-> reg, route |-> {}, word |-> word]
    BY DEF AioLib!Boot
  <2> HIDE DEF reg, word, d
  <2> QED  BY <2>1, <2>2, <2>3 DEF AioDev, reg, word
<1> HIDE DEF d
<1>2. /\ p.Name = d.name
      /\ \/ AioLib!Sides(d) = {"AI"} /\ AioLib!Has(d, "AI") /\ p.ai = <<16, 8>> /\ p.ao = <<0, 0>>
         \/ AioLib!Sides(d) = {"AO"} /\ AioLib!Has(d, "AO") /\ ~AioLib!Has(d, "AI") /\ p.ai = <<0, 0>> /\ p.ao = <<16, 4>>
  BY <1>1, AioProduct
<1> DEFINE K == {<<"limits", 0>>, <<"name", 0>>, <<"status", "MEM">>} \cup {<<"status", s>> : s \in AioLib!Sides(d)}
<1>3. f = [k \in K |-> CASE k[1] = "limits" -> IF AioLib!Has(d, "AI") THEN <<16, 8, 0, 0>> ELSE <<0, 0, 16, 4>>
                         [] k[1] = "name" -> d.name
                         [] k[1] = "status" -> d.word[AioLib!StatusAt(k[2])]]
  BY DEF AioLib!Facts
<1> HIDE DEF f, p
<1>4. DOMAIN f = K
  BY <1>3
<1>5. K \subseteq AioKeys
  BY <1>2 DEF AioKeys
<1>6. f[<<"limits", 0>>] = IF AioLib!Has(d, "AI") THEN <<16, 8, 0, 0>> ELSE <<0, 0, 16, 4>>
  BY <1>3
<1>7. AioLib!Answers(d, <<"limits", 0>>) = {f[<<"limits", 0>>]}
  <2>1. AioLib!Answers(d, <<"limits", 0>>) = {<<p.ai[1], p.ai[2], p.ao[1], p.ao[2]>>}
    BY DEF p, AioLib!Answers, AioLib!GetAiResolution, AioLib!GetAoResolution, AioLib!GetAiMaxChannels,
           AioLib!GetAoMaxChannels, AioLib!Resolution, AioLib!MaxChannel
  <2> QED  BY <1>2, <1>6, <2>1
<1>8. AioLib!Answers(d, <<"name", 0>>) = {f[<<"name", 0>>]}
  <2>1. f[<<"name", 0>>] = d.name
    BY <1>3
  <2> QED  BY <1>2, <2>1 DEF p, AioLib!Answers, AioLib!QueryDeviceName
<1>9. ASSUME NEW s, <<"status", s>> \in K
      PROVE  AioLib!Answers(d, <<"status", s>>) = {f[<<"status", s>>]}
  <2>1. f[<<"status", s>>] = d.word[AioLib!StatusAt(s)]
    BY <1>3, <1>9
  <2>2. s \in {"AI", "AO", "MEM"}
    BY <1>2, <1>9
  <2> QED
    BY <2>1, <2>2 DEF AioLib!Answers, AioLib!DirectInput, AioLib!GetAiStatus, AioLib!GetAoStatus, AioLib!MemStatus,
              AioLib!read_ai_status, AioLib!read_ao_status, AioLib!StatusAt
<1>10. ASSUME NEW k \in K
       PROVE  AioLib!Answers(d, k) = {f[k]}
  <2>1. (k = <<"limits", 0>>) \/ (k = <<"name", 0>>) \/ (\E s : k = <<"status", s>>)
    BY <1>10
  <2> HIDE DEF K
  <2> QED  BY <1>7, <1>8, <1>9, <1>10, <2>1
<1> HIDE DEF K
<1> QED
  BY <1>1, <1>4, <1>5, <1>10 DEF d, f

-----------------------------------------------------------------------------
(* The library of cnt. *)

\* States of a counter device, and the keys its answers go by.
CntBits == 0..7
CntBytes == {v \in Int : CntLib!Byte(v)}
CntDev == [alwaysOn : BOOLEAN, compare : [CntLib!Channels -> {v \in Int : CntLib!Long(v)}], filter : [CntLib!Channels -> CntBytes], input_sig : SUBSET CntBits,
           latch : Int, latched : [CntLib!Channels -> Int], mode : [CntLib!Channels -> SUBSET CntBits],
           name : CntLib!Names, pulsewidth : CntBytes, reg : [CntLib!Commands -> Int], sence : Int,
           status : [CntLib!Channels -> Int], zPhase : [CntLib!Channels -> CntBytes]]
CntKeys == ({"channels", "name", "SetPulseWidth", "SET_INTERRUPT_MASK", "SET_TIMER_DATA"} \X {0})
             \cup ({"status", "SetOperationMode", "SetZMode", "SetZLogic", "SelectChannelSignal", "SetCountDirection",
                    "SetDigitalFilter", "NotifyCountUp", "Preset", "counting", "flag"} \X CntLib!Channels)

\* What a step leaves of a device: all but the fields of F.
CntBut(d, e, F) ==
  /\ e \in CntDev /\ e.name = d.name /\ e.status = d.status
  /\ "alwaysOn" \in F \/ e.alwaysOn = d.alwaysOn
  /\ "compare" \in F \/ e.compare = d.compare
  /\ "filter" \in F \/ e.filter = d.filter
  /\ "input_sig" \in F \/ e.input_sig = d.input_sig
  /\ "latch" \in F \/ e.latch = d.latch
  /\ "mode" \in F \/ e.mode = d.mode
  /\ "pulsewidth" \in F \/ e.pulsewidth = d.pulsewidth
  /\ "reg" \in F \/ e.reg = d.reg
  /\ "zPhase" \in F \/ e.zPhase = d.zPhase

\* One field at a time.
LEMMA CntPutAlways ==
  ASSUME NEW d \in CntDev, NEW f \in BOOLEAN, NEW e, e = [d EXCEPT !.alwaysOn = f]
  PROVE  CntBut(d, e, {"alwaysOn"}) /\ e.alwaysOn = f
BY SMT DEF CntDev, CntBut
LEMMA CntPutCompare ==
  ASSUME NEW d \in CntDev, NEW f \in [CntLib!Channels -> {v \in Int : CntLib!Long(v)}], NEW e, e = [d EXCEPT !.compare = f]
  PROVE  CntBut(d, e, {"compare"}) /\ e.compare = f
BY SMT DEF CntDev, CntBut
LEMMA CntPutFilter ==
  ASSUME NEW d \in CntDev, NEW f \in [CntLib!Channels -> CntBytes], NEW e, e = [d EXCEPT !.filter = f]
  PROVE  CntBut(d, e, {"filter"}) /\ e.filter = f
BY SMT DEF CntDev, CntBut
LEMMA CntPutSignal ==
  ASSUME NEW d \in CntDev, NEW f \in SUBSET CntBits, NEW e, e = [d EXCEPT !.input_sig = f]
  PROVE  CntBut(d, e, {"input_sig"}) /\ e.input_sig = f
BY SMT DEF CntDev, CntBut
LEMMA CntPutLatch ==
  ASSUME NEW d \in CntDev, NEW f \in Int, NEW e, e = [d EXCEPT !.latch = f]
  PROVE  CntBut(d, e, {"latch"}) /\ e.latch = f
BY SMT DEF CntDev, CntBut
LEMMA CntPutLatched ==
  ASSUME NEW d \in CntDev, NEW f \in [CntLib!Channels -> Int], NEW e, e = [d EXCEPT !.latched = f]
  PROVE  CntBut(d, e, {}) /\ e.latched = f
BY SMT DEF CntDev, CntBut
LEMMA CntPutMode ==
  ASSUME NEW d \in CntDev, NEW f \in [CntLib!Channels -> SUBSET CntBits], NEW e, e = [d EXCEPT !.mode = f]
  PROVE  CntBut(d, e, {"mode"}) /\ e.mode = f
BY SMT DEF CntDev, CntBut
LEMMA CntPutPulse ==
  ASSUME NEW d \in CntDev, NEW f \in CntBytes, NEW e, e = [d EXCEPT !.pulsewidth = f]
  PROVE  CntBut(d, e, {"pulsewidth"}) /\ e.pulsewidth = f
BY SMT DEF CntDev, CntBut
LEMMA CntPutPhase ==
  ASSUME NEW d \in CntDev, NEW f \in [CntLib!Channels -> CntBytes], NEW e, e = [d EXCEPT !.zPhase = f]
  PROVE  CntBut(d, e, {"zPhase"}) /\ e.zPhase = f
BY SMT DEF CntDev, CntBut
LEMMA CntPutReg ==
  ASSUME NEW d \in CntDev, NEW f \in [CntLib!Commands -> Int], NEW e, e = [d EXCEPT !.reg = f]
  PROVE  CntBut(d, e, {"reg"}) /\ e.reg = f
BY SMT DEF CntDev, CntBut

\* The bytes of a long word, put together again.
LEMMA CntLong ==
  ASSUME NEW v \in Nat, CntLib!Long(v)
  PROVE  CntLib!Number(CntLib!ulong2uchar(v), 4) = v
<1> DEFINE a == v \div 256
           b == v \div 65536
           c == v \div 16777216
<1>1. a \in Nat /\ b \in Nat /\ c \in Nat /\ c < 256
  BY DEF CntLib!Long
<1>2. b = a \div 256 /\ c = b \div 256
  OBVIOUS
<1>3. CntLib!ulong2uchar(v) = <<v % 256, a % 256, b % 256, c % 256>>
  BY DEF CntLib!ulong2uchar
<1>4. v % 256 = v - 256 * a
  OBVIOUS
<1> HIDE DEF a, b, c
<1>5. a % 256 = a - 256 * b /\ b % 256 = b - 256 * c /\ c % 256 = c
  BY <1>1, <1>2
<1>6. CntLib!Number(CntLib!ulong2uchar(v), 4) = (v % 256) + (a % 256) * 256 + (b % 256) * 65536 + (c % 256) * 16777216
  BY <1>3 DEF CntLib!Number, CntLib!uchar2ulong
<1> QED
  BY <1>1, <1>4, <1>5, <1>6

\* A register written byte by byte reads as the number written.
LEMMA CntByte ==
  ASSUME NEW v
  PROVE  CntLib!Number(CntLib!ulong2uchar(v), 1) = v % 256
BY DEF CntLib!Number, CntLib!ulong2uchar

LEMMA CntWord ==
  ASSUME NEW v \in Int, NEW size \in {1, 4}
  PROVE  CntLib!Number(CntLib!ulong2uchar(v), size) \in Int
<1>1. CASE size = 1
  BY <1>1, CntByte
<1>2. CASE size = 4
  <2> DEFINE a == v % 256
             b == (v \div 256) % 256
             c == (v \div 65536) % 256
             g == (v \div 16777216) % 256
  <2>1. CntLib!ulong2uchar(v) = <<a, b, c, g>>
    BY DEF CntLib!ulong2uchar
  <2>2. a \in Int /\ b \in Int /\ c \in Int /\ g \in Int
    OBVIOUS
  <2> HIDE DEF a, b, c, g
  <2> QED
    BY <1>2, <2>1, <2>2 DEF CntLib!Number, CntLib!uchar2ulong
<1> QED
  BY <1>1, <1>2

\* A register takes what it is sent; nothing else changes.
LEMMA CntWrite ==
  ASSUME NEW d \in CntDev, NEW c \in CntLib!Commands, NEW size \in {1, 4}, NEW v \in Int,
         NEW e, e = CntLib!Write(d, c, size, v)
  PROVE  CntBut(d, e, {"reg"}) /\ e.reg = [d.reg EXCEPT ![c] = CntLib!Number(CntLib!ulong2uchar(v), size)]
<1> DEFINE w == CntLib!Number(CntLib!ulong2uchar(v), size)
           f == [d.reg EXCEPT ![c] = w]
<1>1. w \in Int
  BY CntWord
<1>2. e = [d EXCEPT !.reg[c] = w]
  BY DEF CntLib!Write
<1> HIDE DEF w
<1>3. f \in [CntLib!Commands -> Int]
  BY <1>1 DEF CntDev
<1>4. e = [d EXCEPT !.reg = f]
  BY <1>2
<1> HIDE DEF f
<1>5. CntBut(d, e, {"reg"}) /\ e.reg = f
  BY <1>3, <1>4, CntPutReg
<1> QED
  BY <1>5 DEF f, w

\* A bit of a byte made of its bits.
LEMMA CntBits8 ==
  ASSUME NEW bits \in SUBSET CntBits
  PROVE  /\ CntLib!Byte(CntLib!ByteOf(bits))
         /\ \A b \in CntBits : CntLib!Bit(CntLib!ByteOf(bits), b) = IF b \in bits THEN 1 ELSE 0
<1> DEFINE w(b) == IF b \in bits THEN 1 ELSE 0
           sum == w(0) + 2 * w(1) + 4 * w(2) + 8 * w(3) + 16 * w(4) + 32 * w(5) + 64 * w(6) + 128 * w(7)
<1>1. CntLib!ByteOf(bits) = sum
  BY DEF CntLib!ByteOf, CntLib!Worth, CntLib!Weight
<1>2. \A b : w(b) \in {0, 1}
  OBVIOUS
<1>3. \A b : w(b) = IF b \in bits THEN 1 ELSE 0
  OBVIOUS
<1> HIDE DEF w
<1>4. w(0) \in {0, 1} /\ w(1) \in {0, 1} /\ w(2) \in {0, 1} /\ w(3) \in {0, 1}
      /\ w(4) \in {0, 1} /\ w(5) \in {0, 1} /\ w(6) \in {0, 1} /\ w(7) \in {0, 1}
  BY <1>2
<1>5. CntLib!Byte(sum)
  BY <1>4 DEF CntLib!Byte
<1>6. /\ (sum \div 1) % 2 = w(0) /\ (sum \div 2) % 2 = w(1) /\ (sum \div 4) % 2 = w(2) /\ (sum \div 8) % 2 = w(3)
      /\ (sum \div 16) % 2 = w(4) /\ (sum \div 32) % 2 = w(5) /\ (sum \div 64) % 2 = w(6) /\ (sum \div 128) % 2 = w(7)
  BY <1>4
<1>7. \A b \in CntBits : CntLib!Bit(sum, b) = w(b)
  <2> HIDE DEF sum
  <2>1. CntBits = {0, 1, 2, 3, 4, 5, 6, 7}
    BY DEF CntBits
  <2>2. /\ CntLib!Weight[0 + 1] = 1 /\ CntLib!Weight[1 + 1] = 2 /\ CntLib!Weight[2 + 1] = 4 /\ CntLib!Weight[3 + 1] = 8
        /\ CntLib!Weight[4 + 1] = 16 /\ CntLib!Weight[5 + 1] = 32 /\ CntLib!Weight[6 + 1] = 64 /\ CntLib!Weight[7 + 1] = 128
    BY DEF CntLib!Weight
  <2> QED  BY <1>6, <2>1, <2>2 DEF CntLib!Bit
<1> HIDE DEF sum
<1> QED
  BY <1>1, <1>3, <1>5, <1>7

LEMMA CntOneBit ==
  \A ch \in CntLib!Channels : CntLib!HasBit(CntLib!ByteOf({ch}), ch) /\ CntLib!HasBit(CntLib!ByteOf(CntLib!Channels), ch)
<1>1. CntLib!ByteOf({0}) = 1 /\ CntLib!ByteOf({1}) = 2 /\ CntLib!ByteOf({0, 1}) = 3
  BY DEF CntLib!ByteOf, CntLib!Worth, CntLib!Weight
<1>2. CntLib!Channels = {0, 1}
  BY DEF CntLib!Channels
<1>3. CntLib!Weight[0 + 1] = 1 /\ CntLib!Weight[1 + 1] = 2
  BY DEF CntLib!Weight
<1>4. CntLib!HasBit(CntLib!ByteOf({0}), 0) /\ CntLib!HasBit(CntLib!ByteOf({0, 1}), 0)
  BY <1>1, <1>3 DEF CntLib!HasBit, CntLib!Bit
<1>5. CntLib!HasBit(CntLib!ByteOf({1}), 1) /\ CntLib!HasBit(CntLib!ByteOf({0, 1}), 1)
  BY <1>1, <1>3 DEF CntLib!HasBit, CntLib!Bit
<1> QED
  BY <1>2, <1>4, <1>5

\* What the answer to a question depends on.
CntCount(d, ch) == CntLib!Number(CntLib!ulong2uchar(d.reg[ch * 5]), 4)

LEMMA CntCounts ==
  ASSUME NEW d \in CntDev, NEW chs \in SUBSET CntLib!Channels, NEW ch \in chs,
         CntLib!HasBit(CntLib!ByteOf(chs), ch), CntLib!ByteOf(chs) \in Int
  PROVE  CntLib!ReadCount(d, chs)[ch] = CntCount(d, ch)
<1> DEFINE v == CntLib!ByteOf(chs)
           x == CntLib!set_count_latch(d, v)
           e == CntLib!Write(x, 20, 1, v)
           f == [c \in CntLib!Channels |-> IF CntLib!HasBit(v, c) THEN CntLib!Read(e, CntLib!COUNT(c), 4) ELSE e.latched[c]]
           g == [e EXCEPT !.latched = f]
<1>1. CntLib!LatchCounts(d, chs) = g
  BY DEF CntLib!LatchCounts, CntLib!Latch, CntLib!LATCH_COUNT
<1>2. CntLib!ReadCount(d, chs)[ch] = g.latched[ch]
  BY <1>1 DEF CntLib!ReadCount
<1> HIDE DEF v
<1>3. CntBut(d, x, {"latch"})
  BY CntPutLatch DEF CntLib!set_count_latch, v
<1> HIDE DEF x
<1>4. 20 \in CntLib!Commands /\ 1 \in {1, 4} /\ x \in CntDev /\ v \in Int
  BY <1>3 DEF CntLib!Commands, CntBut, v
<1>5. CntBut(x, e, {"reg"}) /\ e.reg = [x.reg EXCEPT ![20] = CntLib!Number(CntLib!ulong2uchar(v), 1)]
  BY <1>4, CntWrite
<1> HIDE DEF e
<1>6. ch * 5 \in CntLib!Commands /\ ch * 5 # 20 /\ ch \in CntLib!Channels
  BY DEF CntLib!Channels, CntLib!Commands
<1>7. e.reg[ch * 5] = x.reg[ch * 5] /\ x.reg = d.reg
  BY <1>3, <1>4, <1>5, <1>6 DEF CntBut, CntDev
<1>8. f[ch] = CntLib!Read(e, CntLib!COUNT(ch), 4)
  BY <1>6 DEF v
<1>9. f \in [CntLib!Channels -> Int]
  <2> SUFFICES ASSUME NEW c \in CntLib!Channels
               PROVE  (IF CntLib!HasBit(v, c) THEN CntLib!Read(e, CntLib!COUNT(c), 4) ELSE e.latched[c]) \in Int
    OBVIOUS
  <2>1. e.reg \in [CntLib!Commands -> Int] /\ e.latched[c] \in Int
    BY <1>5 DEF CntBut, CntDev
  <2>2. c * 5 \in CntLib!Commands
    BY DEF CntLib!Channels, CntLib!Commands
  <2>3. CntLib!Read(e, CntLib!COUNT(c), 4) \in Int
    BY <2>1, <2>2, CntWord DEF CntLib!Read, CntLib!COUNT
  <2> QED  BY <2>1, <2>3
<1> HIDE DEF f
<1>10. e \in CntDev
  BY <1>5 DEF CntBut
<1>11. g.latched = f
  BY <1>9, <1>10, CntPutLatched
<1> QED
  BY <1>2, <1>7, <1>8, <1>11 DEF CntLib!Read, CntLib!COUNT, CntCount

LEMMA CntAddresses ==
  /\ \A s \in CntLib!Channels : s * 5 \in CntLib!Commands /\ s * 5 + 1 \in CntLib!Commands /\ s * 5 + 2 \in CntLib!Commands
                               /\ s * 5 + 3 \in CntLib!Commands /\ s * 5 + 4 \in CntLib!Commands /\ s \in Int /\ s >= 0 /\ s < 2
  /\ 20 \in CntLib!Commands /\ 21 \in CntLib!Commands /\ 22 \in CntLib!Commands /\ 23 \in CntLib!Commands /\ 25 \in CntLib!Commands
BY DEF CntLib!Channels, CntLib!Commands

\* A write to one register leaves what the others say.
CntWrote(d, e, a, w) == CntBut(d, e, {"reg"}) /\ e.reg = [d.reg EXCEPT ![a] = w]

LEMMA CntWroteAt ==
  ASSUME NEW d \in CntDev, NEW a \in CntLib!Commands, NEW w, NEW e, CntWrote(d, e, a, w)
  PROVE  e.reg[a] = w /\ \A x \in CntLib!Commands \ {a} : e.reg[x] = d.reg[x]
BY DEF CntWrote, CntDev

LEMMA CntWriteIs ==
  ASSUME NEW d \in CntDev, NEW c \in CntLib!Commands, NEW size \in {1, 4}, NEW v \in Int,
         NEW e, e = CntLib!Write(d, c, size, v)
  PROVE  CntWrote(d, e, c, CntLib!Number(CntLib!ulong2uchar(v), size))
BY CntWrite DEF CntWrote

LEMMA CntWriteByte ==
  ASSUME NEW d \in CntDev, NEW c \in CntLib!Commands, NEW v \in Int, NEW e, e = CntLib!Write(d, c, 1, v)
  PROVE  CntWrote(d, e, c, CntLib!Number(CntLib!ulong2uchar(v), 1))
<1>1. PICK size \in {1, 4} : size = 1
  OBVIOUS
<1>2. e = CntLib!Write(d, c, size, v)
  BY <1>1
<1>3. CntWrote(d, e, c, CntLib!Number(CntLib!ulong2uchar(v), size))
  BY <1>2, CntWriteIs
<1> QED
  BY <1>1, <1>3

\* What starting and stopping change: the reset bit of the modes of S,
\* registers nobody reads, the comparison's to what it was set to, and the
\* modes' of S.
CntRun(d, e, S) ==
  /\ CntBut(d, e, {"input_sig", "mode", "reg"})
  /\ \A s \in CntLib!Channels : \A b : b # 7 => ((b \in e.mode[s]) <=> (b \in d.mode[s]))
  /\ \A s \in CntLib!Channels : e.reg[s * 5] = d.reg[s * 5]
  /\ \A s \in CntLib!Channels : (e.reg[s * 5 + 3] = d.reg[s * 5 + 3]) \/ (e.reg[s * 5 + 3] = d.compare[s])
  /\ \A s \in CntLib!Channels \ S : e.reg[s * 5 + 1] = d.reg[s * 5 + 1] /\ e.mode[s] = d.mode[s]
  /\ e.reg[21] = d.reg[21] /\ e.reg[23] = d.reg[23]

LEMMA CntRunThen ==
  ASSUME NEW d, NEW e, NEW f, NEW S, NEW T, CntRun(d, e, S), CntRun(e, f, T)
  PROVE  CntRun(d, f, S \cup T)
<1>1. CntBut(d, f, {"input_sig", "mode", "reg"}) /\ e.compare = d.compare
  BY DEF CntRun, CntBut
<1>2. \A s \in CntLib!Channels : \A b : b # 7 => ((b \in f.mode[s]) <=> (b \in d.mode[s]))
  BY DEF CntRun
<1>3. \A s \in CntLib!Channels : (f.reg[s * 5 + 3] = d.reg[s * 5 + 3]) \/ (f.reg[s * 5 + 3] = d.compare[s])
  BY <1>1 DEF CntRun
<1>4. \A s \in CntLib!Channels \ (S \cup T) : f.reg[s * 5 + 1] = d.reg[s * 5 + 1] /\ f.mode[s] = d.mode[s]
  BY DEF CntRun
<1> QED
  BY <1>1, <1>2, <1>3, <1>4 DEF CntRun

\* The value of a setting goes to a register.
LEMMA CntRunOne ==
  ASSUME NEW d \in CntDev, NEW a \in CntLib!Commands, NEW w, NEW e, CntWrote(d, e, a, w), a # 21, a # 23, NEW S,
         \A s \in CntLib!Channels : a # s * 5 /\ (s \in S \/ a # s * 5 + 1) /\ ((a = s * 5 + 3) => (w = d.compare[s]))
  PROVE  CntRun(d, e, S) /\ e.mode = d.mode /\ e.input_sig = d.input_sig
<1>a. e.reg[a] = w /\ \A x \in CntLib!Commands \ {a} : e.reg[x] = d.reg[x]
  BY CntWroteAt
<1>b. CntBut(d, e, {"reg"})
  BY DEF CntWrote
<1>1. CntBut(d, e, {"reg"}) /\ e.reg[a] = w /\ \A x \in CntLib!Commands \ {a} : e.reg[x] = d.reg[x]
  BY <1>a, <1>b
<1>2. \A s \in CntLib!Channels : e.reg[s * 5] = d.reg[s * 5]
  BY <1>1, CntAddresses
<1>3. \A s \in CntLib!Channels : (e.reg[s * 5 + 3] = d.reg[s * 5 + 3]) \/ (e.reg[s * 5 + 3] = d.compare[s])
  BY <1>1, CntAddresses
<1>4. \A s \in CntLib!Channels \ S : e.reg[s * 5 + 1] = d.reg[s * 5 + 1]
  BY <1>1, CntAddresses
<1>6. e.mode = d.mode /\ e.input_sig = d.input_sig
  BY <1>b DEF CntBut
<1>7. CntBut(d, e, {"input_sig", "mode", "reg"})
  BY <1>b DEF CntBut
<1>5. e.reg[21] = d.reg[21] /\ e.reg[23] = d.reg[23]
  BY <1>1, CntAddresses
<1> QED
  <2>1. \A s \in CntLib!Channels : \A b : b # 7 => ((b \in e.mode[s]) <=> (b \in d.mode[s]))
    BY <1>6
  <2>2. \A s \in CntLib!Channels \ S : e.reg[s * 5 + 1] = d.reg[s * 5 + 1] /\ e.mode[s] = d.mode[s]
    BY <1>4, <1>6
  <2>3. CntRun(d, e, S)
    BY <1>2, <1>3, <1>5, <1>7, <2>1, <2>2 DEF CntRun
  <2> QED  BY <1>6, <2>3

\* The reset bit of a channel's copy, unless it is always on.
CntGate(d, ch, v) == IF d.alwaysOn THEN IF 7 \in d.mode[ch] THEN 1 ELSE 0 ELSE v

LEMMA CntRunReset ==
  ASSUME NEW d \in CntDev, NEW ch \in CntLib!Channels, NEW v \in {0, 1}, NEW e, e = CntLib!Flagged(d, ch, v)
  PROVE  CntRun(d, e, {ch}) /\ CntBut(d, e, {"mode"}) /\ ((7 \in e.mode[ch]) <=> (CntGate(d, ch, v) = 1))
<1>1. CASE d.alwaysOn
  <2>1. e = d
    BY <1>1 DEF CntLib!Flagged
  <2>2. CntRun(d, e, {ch}) /\ CntBut(d, e, {"mode"})
    BY <2>1 DEF CntRun, CntBut
  <2>3. CntGate(d, ch, v) = IF 7 \in d.mode[ch] THEN 1 ELSE 0
    BY <1>1 DEF CntGate
  <2> QED  BY <2>1, <2>2, <2>3
<1>2. CASE ~d.alwaysOn
  <2> DEFINE f == [d.mode EXCEPT ![ch] = CntLib!With(@, 7, v)]
  <2>1. e = [d EXCEPT !.mode = f]
    BY <1>2 DEF CntLib!Flagged, CntLib!set_reset, CntLib!reset
  <2>2. f \in [CntLib!Channels -> SUBSET CntBits]
    BY DEF CntDev, CntLib!With, CntBits
  <2> HIDE DEF f
  <2>3. CntBut(d, e, {"mode"}) /\ e.mode = f
    BY <2>1, <2>2, CntPutMode
  <2>4. \A s \in CntLib!Channels : s # ch => e.mode[s] = d.mode[s]
    BY <2>3 DEF f, CntDev
  <2>5. e.mode[ch] = CntLib!With(d.mode[ch], 7, v)
    BY <2>3 DEF f, CntDev
  <2>6. (\A b : b # 7 => ((b \in e.mode[ch]) <=> (b \in d.mode[ch]))) /\ ((7 \in e.mode[ch]) <=> (v = 1))
    BY <2>5 DEF CntLib!With
  <2> QED  BY <1>2, <2>3, <2>4, <2>6 DEF CntRun, CntBut, CntGate
<1> QED
  BY <1>1, <1>2

\* Whether the device counts.
CntOn(d, s) == CntLib!Bit(d.reg[s * 5 + 1] % 256, CntLib!reset)

\* A mode register holds the byte of the copy.
CntModed(d, e, ch) ==
  /\ e.reg[ch * 5 + 1] = CntLib!ByteOf(e.mode[ch])
  /\ \A x \in CntLib!Commands \ {ch * 5 + 1} : e.reg[x] = d.reg[x]

LEMMA CntRunMode ==
  ASSUME NEW d \in CntDev, NEW ch \in CntLib!Channels, NEW v \in {0, 1}, NEW e, e = CntLib!SetMode(CntLib!Flagged(d, ch, v), ch)
  PROVE  /\ CntRun(d, e, {ch}) /\ CntModed(d, e, ch) /\ e.input_sig = d.input_sig
         /\ CntOn(e, ch) = CntGate(d, ch, v) /\ ((7 \in e.mode[ch]) <=> (CntGate(d, ch, v) = 1))
<1> DEFINE x == CntLib!Flagged(d, ch, v)
           n == CntLib!ByteOf(x.mode[ch])
           a == ch * 5 + 1
           g == CntGate(d, ch, v)
<1>1. CntRun(d, x, {ch}) /\ CntBut(d, x, {"mode"}) /\ ((7 \in x.mode[ch]) <=> (g = 1))
  BY CntRunReset
<1>2. e = CntLib!Write(x, a, 1, n)
  BY DEF CntLib!SetMode, CntLib!MODE
<1>g. g \in {0, 1}
  BY DEF CntGate
<1> HIDE DEF x, g
<1>3. x \in CntDev
  BY <1>1 DEF CntBut
<1>4. x.mode[ch] \in SUBSET CntBits /\ 7 \in CntBits
  BY <1>3 DEF CntDev, CntBits
<1>5. CntLib!Byte(n) /\ CntLib!Bit(n, 7) = g
  <2>1. CntLib!Byte(n) /\ CntLib!Bit(n, 7) = IF 7 \in x.mode[ch] THEN 1 ELSE 0
    BY <1>4, CntBits8
  <2> HIDE DEF n
  <2> QED  BY <1>1, <1>g, <2>1
<1> HIDE DEF n
<1>6. a \in CntLib!Commands /\ n \in Int /\ n % 256 = n
  BY <1>5, CntAddresses DEF CntLib!Byte
<1>7. CntWrote(x, e, a, n)
  <2> HIDE DEF a
  <2>1. CntWrote(x, e, a, CntLib!Number(CntLib!ulong2uchar(n), 1))
    BY <1>2, <1>3, <1>6, CntWriteByte
  <2> QED  BY <1>6, <2>1, CntByte
<1>9. e.reg[a] = n /\ \A y \in CntLib!Commands \ {a} : e.reg[y] = x.reg[y]
  <2> HIDE DEF a
  <2> QED  BY <1>3, <1>6, <1>7, CntWroteAt
<1>10. CntRun(x, e, {ch}) /\ e.mode = x.mode /\ e.input_sig = x.input_sig
  <2>1. a # 21 /\ a # 23
    BY CntAddresses
  <2>2. \A s \in CntLib!Channels : a # s * 5 /\ (s \in {ch} \/ a # s * 5 + 1) /\ ((a = s * 5 + 3) => (n = x.compare[s]))
    BY CntAddresses
  <2>3. a \in CntLib!Commands
    BY <1>6
  <2> HIDE DEF a
  <2> QED  BY <1>3, <1>7, <2>1, <2>2, <2>3, CntRunOne
<1>11. CntRun(d, e, {ch} \cup {ch})
  BY <1>1, <1>10, CntRunThen
<1>12. {ch} \cup {ch} = {ch}
  OBVIOUS
<1>13. CntOn(e, ch) = g
  BY <1>5, <1>6, <1>9 DEF CntOn, CntLib!reset
<1>14. CntModed(d, e, ch)
  BY <1>1, <1>9, <1>10 DEF CntModed, n, CntBut
<1>15. e.input_sig = d.input_sig
  BY <1>1, <1>10 DEF CntBut
<1> QED
  BY <1>1, <1>10, <1>11, <1>12, <1>13, <1>14, <1>15 DEF g

LEMMA CntStopOne ==
  ASSUME NEW d \in CntDev, NEW ch \in CntLib!Channels, NEW e, e = CntLib!StopChannel(d, ch)
  PROVE  /\ CntRun(d, e, {ch}) /\ e.input_sig = d.input_sig
         /\ CntOn(e, ch) = CntGate(d, ch, 0) /\ ((7 \in e.mode[ch]) <=> (CntGate(d, ch, 0) = 1))
BY CntRunMode DEF CntLib!StopChannel

\* What the registers hold of a channel that is started.
CntHolds(d, e, ch) ==
  /\ e.reg[ch * 5 + 4] = d.filter[ch] /\ e.reg[ch * 5 + 2] = d.zPhase[ch] /\ e.reg[ch * 5 + 3] = d.compare[ch]
  /\ e.reg[ch * 5 + 1] = CntLib!ByteOf(e.mode[ch])

\* A byte of the copy goes to its register.
LEMMA CntSendByte ==
  ASSUME NEW d \in CntDev, NEW a \in CntLib!Commands, NEW v \in CntBytes, NEW e, e = CntLib!Write(d, a, 1, v)
  PROVE  CntWrote(d, e, a, v)
<1>1. v \in Int /\ v % 256 = v
  BY DEF CntBytes, CntLib!Byte
<1> QED
  BY <1>1, CntWriteByte, CntByte

LEMMA CntStartOne ==
  ASSUME NEW d \in CntDev, NEW ch \in CntLib!Channels, NEW e, e = CntLib!StartChannel(d, ch)
  PROVE  /\ CntRun(d, e, {ch}) /\ e.input_sig = d.input_sig /\ CntHolds(d, e, ch) /\ e.reg[25] = d.reg[25]
         /\ CntOn(e, ch) = CntGate(d, ch, 1) /\ ((7 \in e.mode[ch]) <=> (CntGate(d, ch, 1) = 1))
<1>0. PICK a, b, c, m : a = ch * 5 + 4 /\ b = ch * 5 + 2 /\ c = ch * 5 + 3 /\ m = ch * 5 + 1
  OBVIOUS
<1> DEFINE x == CntLib!Write(d, a, 1, d.filter[ch])
           y == CntLib!Write(x, b, 1, d.zPhase[ch])
           z == CntLib!Write(y, c, 4, d.compare[ch])
<1>1. e = CntLib!SetMode(CntLib!Flagged(z, ch, 1), ch)
  BY <1>0 DEF CntLib!StartChannel, CntLib!DIGITAL_FILTER, CntLib!Z_PHASE, CntLib!COMPARE_REG
<1>2. /\ a \in CntLib!Commands /\ b \in CntLib!Commands /\ c \in CntLib!Commands /\ m \in CntLib!Commands
      /\ a \notin {b, c, m, 21, 23, 25} /\ b \notin {c, m, 21, 23, 25} /\ c \notin {m, 21, 23, 25} /\ m # 25
      /\ \A s \in CntLib!Channels : /\ a \notin {s * 5, s * 5 + 1, s * 5 + 3} /\ b \notin {s * 5, s * 5 + 1, s * 5 + 3}
                                   /\ c \notin {s * 5, s * 5 + 1} /\ (c = s * 5 + 3 => s = ch)
  BY <1>0, CntAddresses
<1>3. d.filter[ch] \in CntBytes /\ d.zPhase[ch] \in CntBytes /\ d.compare[ch] \in Nat /\ CntLib!Long(d.compare[ch])
  BY DEF CntDev, CntLib!Long
<1> USE <1>2
<1>4. CntWrote(d, x, a, d.filter[ch])
  BY <1>3, CntSendByte
<1>5. CntRun(d, x, {}) /\ x \in CntDev /\ CntBut(d, x, {"reg"})
  BY <1>4, CntRunOne DEF CntWrote, CntBut
<1>6. x.reg[a] = d.filter[ch] /\ \A r \in CntLib!Commands \ {a} : x.reg[r] = d.reg[r]
  BY <1>4, CntWroteAt
<1> HIDE DEF x
<1>7. CntWrote(x, y, b, d.zPhase[ch])
  BY <1>3, <1>5, CntSendByte
<1>8. CntRun(x, y, {}) /\ y \in CntDev /\ CntBut(x, y, {"reg"})
  BY <1>5, <1>7, CntRunOne DEF CntWrote, CntBut
<1>9. y.reg[b] = d.zPhase[ch] /\ \A r \in CntLib!Commands \ {b} : y.reg[r] = x.reg[r]
  BY <1>5, <1>7, CntWroteAt
<1> HIDE DEF y
<1>10. CntWrote(y, z, c, d.compare[ch])
  <2>1. CntLib!Number(CntLib!ulong2uchar(d.compare[ch]), 4) = d.compare[ch]
    BY <1>3, CntLong
  <2>2. CntWrote(y, z, c, CntLib!Number(CntLib!ulong2uchar(d.compare[ch]), 4))
    BY <1>3, <1>8, CntWrite DEF CntWrote
  <2> QED  BY <2>1, <2>2
<1>11. y.compare = d.compare
  BY <1>5, <1>8 DEF CntBut
<1>12. CntRun(y, z, {}) /\ z \in CntDev /\ CntBut(y, z, {"reg"})
  BY <1>8, <1>10, <1>11, CntRunOne DEF CntWrote, CntBut
<1>13. z.reg[c] = d.compare[ch] /\ \A r \in CntLib!Commands \ {c} : z.reg[r] = y.reg[r]
  BY <1>8, <1>10, CntWroteAt
<1> HIDE DEF z
<1>14. CntBut(d, z, {"reg"})
  BY <1>5, <1>8, <1>12 DEF CntBut
<1>15. CntGate(z, ch, 1) = CntGate(d, ch, 1) /\ z.input_sig = d.input_sig
  BY <1>14 DEF CntGate, CntBut
<1>16. /\ CntRun(z, e, {ch}) /\ CntModed(z, e, ch) /\ e.input_sig = z.input_sig
       /\ CntOn(e, ch) = CntGate(z, ch, 1) /\ ((7 \in e.mode[ch]) <=> (CntGate(z, ch, 1) = 1))
  BY <1>1, <1>12, CntRunMode
<1>17. e.reg[m] = CntLib!ByteOf(e.mode[ch]) /\ \A r \in CntLib!Commands \ {m} : e.reg[r] = z.reg[r]
  BY <1>0, <1>16 DEF CntModed
<1>18. e.reg[a] = d.filter[ch] /\ e.reg[b] = d.zPhase[ch] /\ e.reg[c] = d.compare[ch]
  BY <1>6, <1>9, <1>13, <1>17
<1>19. e.reg[25] = d.reg[25]
  <2>1. PICK r : r = 25
    OBVIOUS
  <2>2. r \in CntLib!Commands \ {a, b, c, m}
    BY <2>1, CntAddresses
  <2>3. e.reg[r] = d.reg[r]
    BY <1>6, <1>9, <1>13, <1>17, <2>2
  <2> QED  BY <2>1, <2>3
<1>20. CntRun(d, e, (({} \cup {}) \cup {}) \cup {ch})
  BY <1>5, <1>8, <1>12, <1>16, CntRunThen
<1>21. (({} \cup {}) \cup {}) \cup {ch} = {ch}
  OBVIOUS
<1> QED
  BY <1>0, <1>15, <1>16, <1>17, <1>18, <1>19, <1>20, <1>21 DEF CntHolds

\* What is common to the channels: the width of the pulse goes to its
\* register, the signals come from theirs.
CntInput(d) == {b \in CntBits : CntLib!HasBit(CntLib!Read(d, CntLib!SELECT_COMMON_INPUT, 1), b)}

LEMMA CntStartBoth ==
  ASSUME NEW d \in CntDev, NEW e, e = CntLib!StartCommon(d)
  PROVE  CntRun(d, e, {}) /\ e.mode = d.mode /\ e.input_sig = CntInput(d) /\ e.reg[25] = d.pulsewidth
<1>0. PICK a, b, c : a = 22 /\ b = 25 /\ c = 26
  OBVIOUS
<1> DEFINE x == CntLib!Write(d, a, 1, d.sence)
           sig == {n \in 0..7 : CntLib!HasBit(CntLib!Read(x, CntLib!SELECT_COMMON_INPUT, 1), n)}
           y == [x EXCEPT !.input_sig = sig]
<1>1. e = CntLib!Write(y, b, 1, x.pulsewidth)
  BY <1>0 DEF CntLib!StartCommon, CntLib!SENCE_PORT, CntLib!ONESHOT_PULSE_WIDTH
<1>2. d.sence \in Int /\ d.pulsewidth \in CntBytes
  BY DEF CntDev
<1>3. /\ a \in CntLib!Commands /\ b \in CntLib!Commands /\ c \in CntLib!Commands \ {a}
      /\ a \notin {21, 23} /\ b \notin {21, 23}
      /\ \A s \in CntLib!Channels : a \notin {s * 5, s * 5 + 1, s * 5 + 3} /\ b \notin {s * 5, s * 5 + 1, s * 5 + 3}
  BY <1>0, CntAddresses DEF CntLib!Commands
<1> USE <1>3
<1>4. PICK v : CntWrote(d, x, a, v)
  <2>1. CntWrote(d, x, a, CntLib!Number(CntLib!ulong2uchar(d.sence), 1))
    BY <1>2, CntWriteByte
  <2> QED  BY <2>1
<1> HIDE DEF x
<1>5. CntRun(d, x, {}) /\ x \in CntDev /\ CntBut(d, x, {"reg"})
  BY <1>4, CntRunOne DEF CntWrote, CntBut
<1>6. x.reg[c] = d.reg[c]
  BY <1>4, CntWroteAt
<1>7. sig = CntInput(d)
  BY <1>0, <1>6 DEF CntInput, CntBits, CntLib!Read, CntLib!SELECT_COMMON_INPUT
<1>8. sig \in SUBSET CntBits
  BY DEF CntBits
<1> HIDE DEF sig
<1>9. CntBut(x, y, {"input_sig"}) /\ y.input_sig = sig
  BY <1>5, <1>8, CntPutSignal
<1> HIDE DEF y
<1>10. CntRun(x, y, {}) /\ y \in CntDev
  BY <1>9 DEF CntRun, CntBut
<1>11. x.pulsewidth = d.pulsewidth
  BY <1>5 DEF CntBut
<1>12. CntWrote(y, e, b, d.pulsewidth)
  BY <1>1, <1>2, <1>10, <1>11, CntSendByte
<1>13. CntRun(y, e, {}) /\ e.reg[b] = d.pulsewidth /\ CntBut(y, e, {"reg"})
  <2>1. CntRun(y, e, {})
    BY <1>10, <1>12, CntRunOne
  <2>2. e.reg[b] = d.pulsewidth
    BY <1>10, <1>12, CntWroteAt
  <2> QED  BY <1>12, <2>1, <2>2 DEF CntWrote
<1>14. CntRun(d, e, ({} \cup {}) \cup {})
  BY <1>5, <1>10, <1>13, CntRunThen
<1>15. ({} \cup {}) \cup {} = {}
  OBVIOUS
<1>16. e.mode = d.mode /\ e.input_sig = CntInput(d)
  BY <1>5, <1>7, <1>9, <1>13 DEF CntBut
<1> QED
  BY <1>0, <1>13, <1>14, <1>15, <1>16

\* A channel that is started has what its copy says.
LEMMA CntStartHolds ==
  ASSUME NEW d \in CntDev, NEW ch \in CntLib!Channels, NEW e, e = CntLib!StartCount(d, {ch})
  PROVE  /\ CntHolds(d, e, ch) /\ e.reg[25] = d.pulsewidth /\ e.mode[ch] \in SUBSET CntBits
         /\ \A b : b # 7 => ((b \in e.mode[ch]) <=> (b \in d.mode[ch]))
<1> DEFINE x == CntLib!StartCommon(d)
<1>1. e = CntLib!StartChannel(x, ch)
  <2>1. CASE ch = 0
    BY <2>1 DEF CntLib!StartCount, CntLib!start_by_channel
  <2>2. CASE ch = 1
    BY <2>2 DEF CntLib!StartCount, CntLib!start_by_channel
  <2> QED  BY <2>1, <2>2 DEF CntLib!Channels
<1>2. CntRun(d, x, {}) /\ x.mode = d.mode /\ x.reg[25] = d.pulsewidth
  BY CntStartBoth
<1> HIDE DEF x
<1>3. x \in CntDev /\ x.filter = d.filter /\ x.zPhase = d.zPhase /\ x.compare = d.compare
  BY <1>2 DEF CntRun, CntBut
<1>4. CntRun(x, e, {ch}) /\ CntHolds(x, e, ch) /\ e.reg[25] = x.reg[25]
  BY <1>1, <1>3, CntStartOne
<1>5. e \in CntDev
  BY <1>4 DEF CntRun, CntBut
<1>6. CntHolds(d, e, ch)
  BY <1>3, <1>4 DEF CntHolds
<1>7. e.mode[ch] \in SUBSET CntBits
  BY <1>5 DEF CntDev
<1>8. \A b : b # 7 => ((b \in e.mode[ch]) <=> (b \in d.mode[ch]))
  BY <1>2, <1>4 DEF CntRun
<1> QED
  BY <1>2, <1>4, <1>6, <1>7, <1>8

\* Where an answer comes from: the copies and registers that must stay.
CntSameAt(d, e, c, s) ==
  /\ c = "SetOperationMode" => (CntLib!get_op_mode(s, e) = CntLib!get_op_mode(s, d))
  /\ c = "SetZLogic" => ((5 \in e.mode[s]) <=> (5 \in d.mode[s]))
  /\ c = "SetCountDirection" => ((3 \in e.mode[s]) <=> (3 \in d.mode[s]))
  /\ c = "SetZMode" => (e.zPhase[s] = d.zPhase[s])
  /\ c = "SelectChannelSignal" => (e.input_sig = d.input_sig)
  /\ c = "SetDigitalFilter" => (e.filter[s] = d.filter[s])
  /\ c = "SetPulseWidth" => (e.pulsewidth = d.pulsewidth)
  /\ c = "NotifyCountUp" => (e.compare[s] = d.compare[s] /\ (e.reg[s * 5 + 3] = d.reg[s * 5 + 3] \/ e.reg[s * 5 + 3] = d.compare[s]))
  /\ c = "Preset" => (e.reg[s * 5] = d.reg[s * 5])
  /\ c = "flag" => ((7 \in e.mode[s]) <=> (7 \in d.mode[s]))
  /\ c = "counting" => (e.reg[s * 5 + 1] = d.reg[s * 5 + 1])
  /\ c = "SET_INTERRUPT_MASK" => (e.reg[21] = d.reg[21])
  /\ c = "SET_TIMER_DATA" => (e.reg[23] = d.reg[23])

\* The registers of a channel that is started, read.
LEMMA CntReadByte ==
  ASSUME NEW d, NEW a, NEW v \in CntBytes, d.reg[a] = v
  PROVE  CntLib!Read(d, a, 1) = v
BY CntByte DEF CntLib!Read, CntBytes, CntLib!Byte

LEMMA CntModeReg ==
  ASSUME NEW d \in CntDev, NEW s \in CntLib!Channels
  PROVE  \A b \in CntBits \ {7} : CntLib!Bit(CntLib!ModeOf(d, s), b) = IF b \in d.mode[s] THEN 1 ELSE 0
<1> DEFINE e == CntLib!StartCount(d, {s})
           n == CntLib!ByteOf(e.mode[s])
<1>1. e.reg[s * 5 + 1] = n /\ e.mode[s] \in SUBSET CntBits /\ \A b : b # 7 => ((b \in e.mode[s]) <=> (b \in d.mode[s]))
  BY CntStartHolds DEF CntHolds
<1>2. CntLib!ModeOf(d, s) = CntLib!Read(e, s * 5 + 1, 1)
  BY DEF CntLib!ModeOf, CntLib!MODE
<1> HIDE DEF e
<1>3. CntLib!Byte(n) /\ \A b \in CntBits : CntLib!Bit(n, b) = IF b \in e.mode[s] THEN 1 ELSE 0
  BY <1>1, CntBits8
<1>4. n \in CntBytes
  BY <1>3 DEF CntBytes, CntLib!Byte
<1> HIDE DEF n
<1>5. CntLib!ModeOf(d, s) = n
  BY <1>1, <1>2, <1>4, CntReadByte
<1> QED
  BY <1>1, <1>3, <1>5

LEMMA CntNotify ==
  ASSUME NEW d \in CntDev, NEW s \in CntLib!Channels
  PROVE  CntLib!Answers(d, <<"NotifyCountUp", s>>) = {d.compare[s], CntLib!Number(CntLib!ulong2uchar(d.reg[s * 5 + 3]), 4)}
<1> DEFINE e == CntLib!StartCount(d, {s})
           a == s * 5 + 3
<1>1. e.reg[a] = d.compare[s]
  BY CntStartHolds DEF CntHolds
<1> HIDE DEF e
<1>2. d.compare[s] \in Nat /\ CntLib!Long(d.compare[s])
  BY DEF CntDev, CntLib!Long
<1>3. CntLib!Number(CntLib!ulong2uchar(e.reg[a]), 4) = d.compare[s]
  BY <1>1, <1>2, CntLong
<1>4. CntLib!Answers(d, <<"NotifyCountUp", s>>) = {CntLib!Read(x, a, 4) : x \in {d, e}}
  BY DEF CntLib!Answers, CntLib!COMPARE_REG, e
<1>5. CntLib!Read(d, a, 4) = CntLib!Number(CntLib!ulong2uchar(d.reg[a]), 4) /\ CntLib!Read(e, a, 4) = d.compare[s]
  BY <1>3 DEF CntLib!Read
<1> HIDE DEF a
<1>6. CntLib!Answers(d, <<"NotifyCountUp", s>>) = {CntLib!Read(d, a, 4), CntLib!Read(e, a, 4)}
  BY <1>4
<1> QED
  BY <1>5, <1>6 DEF a

LEMMA CntPreset ==
  ASSUME NEW d \in CntDev, NEW s \in CntLib!Channels
  PROVE  CntLib!Answers(d, <<"Preset", s>>) = {CntCount(d, s)}
<1>1. CntLib!Answers(d, <<"Preset", s>>) = {CntLib!ReadCount(d, {s})[s], CntLib!ReadCount(d, CntLib!Channels)[s]}
  BY DEF CntLib!Answers
<1>2. {s} \subseteq CntBits /\ CntLib!Channels \subseteq CntBits
  BY DEF CntLib!Channels, CntBits
<1>3. CntLib!ByteOf({s}) \in Int /\ CntLib!ByteOf(CntLib!Channels) \in Int
  BY <1>2, CntBits8 DEF CntLib!Byte
<1>4. CntLib!ReadCount(d, {s})[s] = CntCount(d, s)
  BY <1>3, CntOneBit, CntCounts
<1>5. CntLib!ReadCount(d, CntLib!Channels)[s] = CntCount(d, s)
  BY <1>3, CntOneBit, CntCounts
<1> QED
  BY <1>1, <1>4, <1>5

\* What each answer is, in terms of the copies and registers it depends on.
LEMMA CntStatusIs ==
  ASSUME NEW d, NEW s
  PROVE  CntLib!Answers(d, <<"status", s>>) = {<<d.status[s], d.status[s] % 2>>}
BY DEF CntLib!Answers, CntLib!ReadStatus, CntLib!InputDIBit, CntLib!GetIoctl

LEMMA CntModeIs ==
  ASSUME NEW d \in CntDev, NEW s \in CntLib!Channels
  PROVE  CntLib!Answers(d, <<"SetOperationMode", s>>) = {m \in DOMAIN CntLib!Modes : CntLib!ModeBits[m] = CntLib!get_op_mode(s, d)}
<1> DEFINE n == CntLib!ModeOf(d, s)
           F == {b \in {0, 1, 2, 4} : CntLib!HasBit(n, b)}
<1>1. CntLib!Answers(d, <<"SetOperationMode", s>>) = {m \in DOMAIN CntLib!Modes : CntLib!ModeBits[m] = F}
  BY DEF CntLib!Answers, CntLib!sel0, CntLib!sel1, CntLib!sel2, CntLib!ub
<1>2. \A b \in {0, 1, 2, 4} : CntLib!Bit(n, b) = IF b \in d.mode[s] THEN 1 ELSE 0
  BY CntModeReg DEF CntBits
<1> HIDE DEF n
<1>3. F = d.mode[s] \cap {0, 1, 2, 4}
  BY <1>2 DEF CntLib!HasBit
<1> QED
  BY <1>1, <1>3 DEF CntLib!get_op_mode, CntLib!sel0, CntLib!sel1, CntLib!sel2, CntLib!ub

LEMMA CntPhaseIs ==
  ASSUME NEW d \in CntDev, NEW s \in CntLib!Channels
  PROVE  CntLib!Answers(d, <<"SetZMode", s>>) = {(d.zPhase[s] \div 2) % 4}
<1> DEFINE e == CntLib!StartCount(d, {s})
           a == s * 5 + 2
<1>1. e.reg[a] = d.zPhase[s]
  BY CntStartHolds DEF CntHolds
<1>2. CntLib!Answers(d, <<"SetZMode", s>>) = {(CntLib!Read(e, a, 1) \div 2) % 4}
  BY DEF CntLib!Answers, CntLib!Z_PHASE
<1> HIDE DEF e, a
<1>3. d.zPhase[s] \in CntBytes
  BY DEF CntDev
<1> QED
  BY <1>1, <1>2, <1>3, CntReadByte

LEMMA CntLogicIs ==
  ASSUME NEW d \in CntDev, NEW s \in CntLib!Channels
  PROVE  CntLib!Answers(d, <<"SetZLogic", s>>) = {IF 5 \in d.mode[s] THEN 1 ELSE 0}
<1>1. CntLib!Answers(d, <<"SetZLogic", s>>) = {IF 5 \in d.mode[s] THEN 1 ELSE 0, CntLib!Bit(CntLib!ModeOf(d, s), 5)}
  BY DEF CntLib!Answers, CntLib!GetZLogic, CntLib!GetIoctl, CntLib!get_z_logic, CntLib!BitOf, CntLib!zsel
<1>2. 5 \in CntBits \ {7}
  BY DEF CntBits
<1> QED
  BY <1>1, <1>2, CntModeReg

LEMMA CntDirectionIs ==
  ASSUME NEW d \in CntDev, NEW s \in CntLib!Channels
  PROVE  CntLib!Answers(d, <<"SetCountDirection", s>>) = {IF 3 \in d.mode[s] THEN 1 ELSE 0}
<1>1. CntLib!Answers(d, <<"SetCountDirection", s>>) = {CntLib!Bit(CntLib!ModeOf(d, s), 3)}
  BY DEF CntLib!Answers, CntLib!dir
<1>2. 3 \in CntBits \ {7}
  BY DEF CntBits
<1> QED
  BY <1>1, <1>2, CntModeReg

LEMMA CntSignalIs ==
  ASSUME NEW d, NEW s
  PROVE  CntLib!Answers(d, <<"SelectChannelSignal", s>>) = {IF s \in d.input_sig THEN 1 ELSE 0}
BY DEF CntLib!Answers, CntLib!GetChannelSignal, CntLib!GetIoctl, CntLib!get_selectsignal, CntLib!BitOf

LEMMA CntFilterIs ==
  ASSUME NEW d \in CntDev, NEW s \in CntLib!Channels
  PROVE  CntLib!Answers(d, <<"SetDigitalFilter", s>>) = {d.filter[s]}
<1> DEFINE e == CntLib!StartCount(d, {s})
           a == s * 5 + 4
<1>1. e.reg[a] = d.filter[s]
  BY CntStartHolds DEF CntHolds
<1>2. CntLib!Answers(d, <<"SetDigitalFilter", s>>) = {d.filter[s], CntLib!Read(e, a, 1)}
  BY DEF CntLib!Answers, CntLib!GetDigitalFilter, CntLib!GetIoctl, CntLib!get_digital_filter, CntLib!DIGITAL_FILTER
<1> HIDE DEF e, a
<1>3. d.filter[s] \in CntBytes
  BY DEF CntDev
<1> QED
  BY <1>1, <1>2, <1>3, CntReadByte

LEMMA CntPulseIs ==
  ASSUME NEW d \in CntDev, NEW s
  PROVE  CntLib!Answers(d, <<"SetPulseWidth", s>>) = {d.pulsewidth}
<1> DEFINE e == CntLib!StartCount(d, {0})
<1>0. PICK a : a = 25
  OBVIOUS
<1>1. e.reg[a] = d.pulsewidth
  <2>1. 0 \in CntLib!Channels
    BY DEF CntLib!Channels
  <2> QED  BY <1>0, <2>1, CntStartHolds
<1>2. CntLib!Answers(d, <<"SetPulseWidth", s>>) = {d.pulsewidth, CntLib!Read(e, a, 1)}
  BY <1>0 DEF CntLib!Answers, CntLib!GetPulseWidth, CntLib!GetIoctl, CntLib!get_pulse_width, CntLib!ONESHOT_PULSE_WIDTH
<1> HIDE DEF e
<1>3. d.pulsewidth \in CntBytes
  BY DEF CntDev
<1> QED
  BY <1>1, <1>2, <1>3, CntReadByte

LEMMA CntFlagIs ==
  ASSUME NEW d, NEW s
  PROVE  CntLib!Answers(d, <<"flag", s>>) = {IF 7 \in d.mode[s] THEN 1 ELSE 0}
BY DEF CntLib!Answers, CntLib!Flag, CntLib!BitOf, CntLib!reset

LEMMA CntCountingIs ==
  ASSUME NEW d, NEW s
  PROVE  CntLib!Answers(d, <<"counting", s>>) = {CntLib!Bit(d.reg[s * 5 + 1] % 256, CntLib!reset)}
BY CntByte DEF CntLib!Answers, CntLib!Read, CntLib!MODE

LEMMA CntMaskIs ==
  ASSUME NEW d, NEW s
  PROVE  CntLib!Answers(d, <<"SET_INTERRUPT_MASK", s>>) = {d.reg[21] % 256}
BY CntByte DEF CntLib!Answers, CntLib!GetInterruptMask, CntLib!Read, CntLib!INTERRUPT_MASK

LEMMA CntTimerIs ==
  ASSUME NEW d, NEW s
  PROVE  CntLib!Answers(d, <<"SET_TIMER_DATA", s>>) = {CntLib!Number(CntLib!ulong2uchar(d.reg[23]), 4)}
BY DEF CntLib!Answers, CntLib!Read, CntLib!TIMER_DATA

\* An answer that stays.
CntStays(d, e, k) == \A v : CntLib!Answers(d, k) = {v} => CntLib!Answers(e, k) = {v}

LEMMA CntNotifyStays ==
  ASSUME NEW d \in CntDev, NEW e \in CntDev, NEW s \in CntLib!Channels, e.compare[s] = d.compare[s],
         (e.reg[s * 5 + 3] = d.reg[s * 5 + 3]) \/ (e.reg[s * 5 + 3] = d.compare[s])
  PROVE  CntStays(d, e, <<"NotifyCountUp", s>>)
<1> DEFINE N(x) == CntLib!Number(CntLib!ulong2uchar(x), 4)
           c == d.compare[s]
<1>1. c \in Nat /\ CntLib!Long(c)
  BY DEF CntDev, CntLib!Long
<1>2. N(c) = c
  BY <1>1, CntLong
<1>3. CntLib!Answers(d, <<"NotifyCountUp", s>>) = {c, N(d.reg[s * 5 + 3])}
  BY CntNotify
<1>4. CntLib!Answers(e, <<"NotifyCountUp", s>>) = {c, N(e.reg[s * 5 + 3])}
  BY CntNotify
<1> HIDE DEF N, c
<1>5. ASSUME NEW v, CntLib!Answers(d, <<"NotifyCountUp", s>>) = {v}
      PROVE  CntLib!Answers(e, <<"NotifyCountUp", s>>) = {v}
  <2>1. v = c /\ N(d.reg[s * 5 + 3]) = v
    BY <1>3, <1>5
  <2>2. N(e.reg[s * 5 + 3]) = v
    BY <1>2, <2>1 DEF c
  <2> QED  BY <1>4, <2>1, <2>2
<1> QED
  BY <1>5 DEF CntStays

\* An answer whose sources stay is the same.
LEMMA CntSame ==
  ASSUME NEW d \in CntDev, NEW e \in CntDev, e.name = d.name, e.status = d.status,
         NEW c, NEW s, <<c, s>> \in CntKeys, CntSameAt(d, e, c, s)
  PROVE  CntStays(d, e, <<c, s>>)
<1> SUFFICES ASSUME c # "NotifyCountUp"
             PROVE  CntLib!Answers(e, <<c, s>>) = CntLib!Answers(d, <<c, s>>)
  <2>1. CASE c = "NotifyCountUp"
    BY <2>1, CntNotifyStays DEF CntSameAt, CntKeys
  <2> QED  BY <2>1 DEF CntStays
<1>1. CASE c = "channels"
  BY <1>1 DEF CntLib!Answers, CntLib!GetMaxChannels, CntLib!GetIoctl
<1>2. CASE c = "name"
  BY <1>2 DEF CntLib!Answers, CntLib!get_cnt_devname
<1>3. CASE c = "status"
  BY <1>3, CntStatusIs
<1>a. c \notin {"channels", "name", "SetPulseWidth", "SET_INTERRUPT_MASK", "SET_TIMER_DATA"} => s \in CntLib!Channels
  BY DEF CntKeys
<1>4. CASE c = "SetOperationMode"
  BY <1>4, <1>a, CntModeIs DEF CntSameAt
<1>5. CASE c = "SetZMode"
  <2>1. CntLib!Answers(e, <<c, s>>) = {(e.zPhase[s] \div 2) % 4}
    BY <1>5, <1>a, CntPhaseIs
  <2>2. CntLib!Answers(d, <<c, s>>) = {(d.zPhase[s] \div 2) % 4}
    BY <1>5, <1>a, CntPhaseIs
  <2> QED  BY <1>5, <2>1, <2>2 DEF CntSameAt
<1>6. CASE c = "SetZLogic"
  BY <1>6, <1>a, CntLogicIs DEF CntSameAt
<1>7. CASE c = "SetCountDirection"
  BY <1>7, <1>a, CntDirectionIs DEF CntSameAt
<1>8. CASE c = "SelectChannelSignal"
  BY <1>8, CntSignalIs DEF CntSameAt
<1>9. CASE c = "SetDigitalFilter"
  BY <1>9, <1>a, CntFilterIs DEF CntSameAt
<1>10. CASE c = "SetPulseWidth"
  BY <1>10, CntPulseIs DEF CntSameAt
<1>11. CASE c = "flag"
  BY <1>11, CntFlagIs DEF CntSameAt
<1>12. CASE c = "counting"
  <2>1. CntLib!Answers(e, <<c, s>>) = {CntLib!Bit(e.reg[s * 5 + 1] % 256, CntLib!reset)}
    BY <1>12, CntCountingIs
  <2>2. CntLib!Answers(d, <<c, s>>) = {CntLib!Bit(d.reg[s * 5 + 1] % 256, CntLib!reset)}
    BY <1>12, CntCountingIs
  <2> QED  BY <1>12, <2>1, <2>2 DEF CntSameAt
<1>13. CASE c = "SET_INTERRUPT_MASK"
  <2>1. CntLib!Answers(e, <<c, s>>) = {e.reg[21] % 256}
    BY <1>13, CntMaskIs
  <2>2. CntLib!Answers(d, <<c, s>>) = {d.reg[21] % 256}
    BY <1>13, CntMaskIs
  <2> QED  BY <1>13, <2>1, <2>2 DEF CntSameAt
<1>14. CASE c = "SET_TIMER_DATA"
  <2>1. CntLib!Answers(e, <<c, s>>) = {CntLib!Number(CntLib!ulong2uchar(e.reg[23]), 4)}
    BY <1>14, CntTimerIs
  <2>2. CntLib!Answers(d, <<c, s>>) = {CntLib!Number(CntLib!ulong2uchar(d.reg[23]), 4)}
    BY <1>14, CntTimerIs
  <2> QED  BY <1>14, <2>1, <2>2 DEF CntSameAt
<1>15. CASE c = "Preset"
  <2>1. s \in CntLib!Channels /\ CntCount(e, s) = CntCount(d, s)
    BY <1>15 DEF CntKeys, CntSameAt, CntCount
  <2> QED  BY <1>15, <2>1, CntPreset
<1> QED
  BY <1>1, <1>2, <1>3, <1>4, <1>5, <1>6, <1>7, <1>8, <1>9, <1>10, <1>11, <1>12, <1>13, <1>14, <1>15 DEF CntKeys

\* Which keys other than those of K a step does not concern.
CntFrame(d, e, K) == \A c, s : <<c, s>> \in CntKeys \ K => CntSameAt(d, e, c, s)

LEMMA CntKeeps ==
  ASSUME NEW d \in CntDev, NEW e \in CntDev, e.name = d.name, e.status = d.status, NEW K, CntFrame(d, e, K)
  PROVE  \A k \in CntKeys \ K : CntStays(d, e, k)
<1> TAKE k \in CntKeys \ K
<1>1. PICK c, s : k = <<c, s>>
  BY DEF CntKeys
<1>2. CntSameAt(d, e, c, s)
  BY <1>1 DEF CntFrame
<1> QED
  BY <1>1, <1>2, CntSame

\* What a call gives: the device, what it settles, what it leaves.
CntGives(d, r, e) ==
  /\ e \in CntDev /\ e.name = d.name
  /\ DOMAIN CntLib!Settles(d, r) \subseteq CntKeys
  /\ \A k \in DOMAIN CntLib!Settles(d, r) : CntLib!Answers(e, k) = {CntLib!Settles(d, r)[k]}
  /\ \A k \in CntKeys \ (DOMAIN CntLib!Settles(d, r) \cup CntLib!Forgets(r)) : CntStays(d, e, k)

LEMMA CntSettlesOne ==
  ASSUME NEW d \in CntDev, NEW r, NEW e \in CntDev, e.name = d.name, e.status = d.status, NEW c, NEW s, NEW v,
         CntLib!Settles(d, r) = [k \in {<<c, s>>} |-> v], <<c, s>> \in CntKeys,
         CntLib!Answers(e, <<c, s>>) = {v}, CntFrame(d, e, {<<c, s>>} \cup CntLib!Forgets(r))
  PROVE  CntGives(d, r, e)
<1>1. DOMAIN CntLib!Settles(d, r) = {<<c, s>>} /\ CntLib!Settles(d, r)[<<c, s>>] = v
  OBVIOUS
<1>2. \A k \in CntKeys \ ({<<c, s>>} \cup CntLib!Forgets(r)) : CntStays(d, e, k)
  BY CntKeeps
<1> QED
  BY <1>1, <1>2 DEF CntGives

\* Each call settles what it says and nothing else.
LEMMA CntSetZMode ==
  ASSUME NEW d \in CntDev, NEW r, NEW ch \in CntLib!Channels, r.ch = ch, r.call = "SetZMode", NEW v \in 0..3, r.val = v
  PROVE  CntGives(d, r, CntLib!Do(d, r))
<1> DEFINE e == CntLib!Do(d, r)
           f == [d.zPhase EXCEPT ![ch] = (v % 4) * 2]
<1>1. e = [d EXCEPT !.zPhase = f]
  BY DEF CntLib!Do, CntLib!SetZMode, CntLib!CopyIoctl, CntLib!set_z_mode
<1>2. f \in [CntLib!Channels -> CntBytes]
  <2>1. (v % 4) * 2 \in CntBytes
    BY DEF CntBytes, CntLib!Byte
  <2> QED  BY <2>1 DEF CntDev
<1> HIDE DEF e, f
<1>3. CntBut(d, e, {"zPhase"}) /\ e.zPhase = f
  BY <1>1, <1>2, CntPutPhase
<1>4. e \in CntDev /\ e.name = d.name /\ e.status = d.status
  BY <1>3 DEF CntBut
<1>5. CntLib!Settles(d, r) = [k \in {<<"SetZMode", ch>>} |-> v] /\ CntLib!Forgets(r) = {}
  BY DEF CntLib!Settles, CntLib!Forgets
<1>6. <<"SetZMode", ch>> \in CntKeys
  BY DEF CntKeys
<1>7. CntLib!Answers(e, <<"SetZMode", ch>>) = {v}
  <2>1. e.zPhase[ch] = (v % 4) * 2
    BY <1>3 DEF f, CntDev
  <2>2. (((v % 4) * 2) \div 2) % 4 = v
    OBVIOUS
  <2>3. CntLib!Answers(e, <<"SetZMode", ch>>) = {(e.zPhase[ch] \div 2) % 4}
    BY <1>4, CntPhaseIs
  <2> QED  BY <2>1, <2>2, <2>3
<1>8. CntFrame(d, e, {<<"SetZMode", ch>>} \cup CntLib!Forgets(r))
  <2>1. \A s \in CntLib!Channels : s # ch => e.zPhase[s] = d.zPhase[s]
    BY <1>3 DEF f, CntDev
  <2> QED  BY <1>3, <2>1 DEF CntFrame, CntSameAt, CntBut, CntKeys, CntLib!get_op_mode
<1>9. CntGives(d, r, e)
  BY <1>4, <1>5, <1>6, <1>7, <1>8, CntSettlesOne
<1> QED
  BY <1>9 DEF e

LEMMA CntSetZLogic ==
  ASSUME NEW d \in CntDev, NEW r, NEW ch \in CntLib!Channels, r.ch = ch, r.call = "SetZLogic", NEW v \in {0, 1}, r.val = v
  PROVE  CntGives(d, r, CntLib!Do(d, r))
<1> DEFINE e == CntLib!Do(d, r)
           f == [d.mode EXCEPT ![ch] = CntLib!With(@, 5, v)]
<1>1. e = [d EXCEPT !.mode = f]
  BY DEF CntLib!Do, CntLib!SetZLogic, CntLib!CopyIoctl, CntLib!set_z_logic, CntLib!zsel
<1>2. f \in [CntLib!Channels -> SUBSET CntBits]
  BY DEF CntDev, CntLib!With, CntBits
<1> HIDE DEF e, f
<1>3. CntBut(d, e, {"mode"}) /\ e.mode = f
  BY <1>1, <1>2, CntPutMode
<1>4. e \in CntDev /\ e.name = d.name /\ e.status = d.status
  BY <1>3 DEF CntBut
<1>5. CntLib!Settles(d, r) = [k \in {<<"SetZLogic", ch>>} |-> v] /\ CntLib!Forgets(r) = {}
  BY DEF CntLib!Settles, CntLib!Forgets
<1>6. <<"SetZLogic", ch>> \in CntKeys
  BY DEF CntKeys
<1>7. CntLib!Answers(e, <<"SetZLogic", ch>>) = {v}
  <2>1. e.mode[ch] = CntLib!With(d.mode[ch], 5, v)
    BY <1>3 DEF f, CntDev
  <2>2. (5 \in e.mode[ch]) <=> (v = 1)
    BY <2>1 DEF CntLib!With
  <2> QED  BY <1>4, <2>2, CntLogicIs
<1>8. CntFrame(d, e, {<<"SetZLogic", ch>>} \cup CntLib!Forgets(r))
  <2>1. \A s \in CntLib!Channels : s # ch => e.mode[s] = d.mode[s]
    BY <1>3 DEF f, CntDev
  <2>2. e.mode[ch] = CntLib!With(d.mode[ch], 5, v)
    BY <1>3 DEF f, CntDev
  <2>3. \A b : b # 5 => ((b \in e.mode[ch]) <=> (b \in d.mode[ch]))
    BY <2>2 DEF CntLib!With
  <2>4. \A s \in CntLib!Channels : CntLib!get_op_mode(s, e) = CntLib!get_op_mode(s, d)
    <3> TAKE s \in CntLib!Channels
    <3>1. \A b \in {0, 1, 2, 4} : (b \in e.mode[s]) <=> (b \in d.mode[s])
      BY <2>1, <2>3
    <3> QED  BY <3>1 DEF CntLib!get_op_mode, CntLib!sel0, CntLib!sel1, CntLib!sel2, CntLib!ub
  <2>5. \A s \in CntLib!Channels : \A b : b # 5 => ((b \in e.mode[s]) <=> (b \in d.mode[s]))
    BY <2>1, <2>3
  <2> QED  BY <1>3, <2>1, <2>4, <2>5 DEF CntFrame, CntSameAt, CntBut, CntKeys
<1>9. CntGives(d, r, e)
  BY <1>4, <1>5, <1>6, <1>7, <1>8, CntSettlesOne
<1> QED
  BY <1>9 DEF e

LEMMA CntSetDirection ==
  ASSUME NEW d \in CntDev, NEW r, NEW ch \in CntLib!Channels, r.ch = ch, r.call = "SetCountDirection", NEW v \in {0, 1}, r.val = v
  PROVE  CntGives(d, r, CntLib!Do(d, r))
<1> DEFINE e == CntLib!Do(d, r)
           f == [d.mode EXCEPT ![ch] = CntLib!With(@, 3, v)]
<1>1. e = [d EXCEPT !.mode = f]
  BY DEF CntLib!Do, CntLib!SetCountDirection, CntLib!CopyIoctl, CntLib!set_count_direction, CntLib!dir
<1>2. f \in [CntLib!Channels -> SUBSET CntBits]
  BY DEF CntDev, CntLib!With, CntBits
<1> HIDE DEF e, f
<1>3. CntBut(d, e, {"mode"}) /\ e.mode = f
  BY <1>1, <1>2, CntPutMode
<1>4. e \in CntDev /\ e.name = d.name /\ e.status = d.status
  BY <1>3 DEF CntBut
<1>5. CntLib!Settles(d, r) = [k \in {<<"SetCountDirection", ch>>} |-> v] /\ CntLib!Forgets(r) = {}
  BY DEF CntLib!Settles, CntLib!Forgets
<1>6. <<"SetCountDirection", ch>> \in CntKeys
  BY DEF CntKeys
<1>7. CntLib!Answers(e, <<"SetCountDirection", ch>>) = {v}
  <2>1. e.mode[ch] = CntLib!With(d.mode[ch], 3, v)
    BY <1>3 DEF f, CntDev
  <2>2. (3 \in e.mode[ch]) <=> (v = 1)
    BY <2>1 DEF CntLib!With
  <2> QED  BY <1>4, <2>2, CntDirectionIs
<1>8. CntFrame(d, e, {<<"SetCountDirection", ch>>} \cup CntLib!Forgets(r))
  <2>1. \A s \in CntLib!Channels : s # ch => e.mode[s] = d.mode[s]
    BY <1>3 DEF f, CntDev
  <2>2. e.mode[ch] = CntLib!With(d.mode[ch], 3, v)
    BY <1>3 DEF f, CntDev
  <2>3. \A b : b # 3 => ((b \in e.mode[ch]) <=> (b \in d.mode[ch]))
    BY <2>2 DEF CntLib!With
  <2>4. \A s \in CntLib!Channels : CntLib!get_op_mode(s, e) = CntLib!get_op_mode(s, d)
    <3> TAKE s \in CntLib!Channels
    <3>1. \A b \in {0, 1, 2, 4} : (b \in e.mode[s]) <=> (b \in d.mode[s])
      BY <2>1, <2>3
    <3> QED  BY <3>1 DEF CntLib!get_op_mode, CntLib!sel0, CntLib!sel1, CntLib!sel2, CntLib!ub
  <2>5. \A s \in CntLib!Channels : \A b : b # 3 => ((b \in e.mode[s]) <=> (b \in d.mode[s]))
    BY <2>1, <2>3
  <2> QED  BY <1>3, <2>1, <2>4, <2>5 DEF CntFrame, CntSameAt, CntBut, CntKeys
<1>9. CntGives(d, r, e)
  BY <1>4, <1>5, <1>6, <1>7, <1>8, CntSettlesOne
<1> QED
  BY <1>9 DEF e

LEMMA CntSetFilter ==
  ASSUME NEW d \in CntDev, NEW r, NEW ch \in CntLib!Channels, r.ch = ch, r.call = "SetDigitalFilter", NEW v, CntLib!Byte(v), r.val = v
  PROVE  CntGives(d, r, CntLib!Do(d, r))
<1> DEFINE e == CntLib!Do(d, r)
           f == [d.filter EXCEPT ![ch] = v % 256]
<1>1. e = [d EXCEPT !.filter = f]
  BY DEF CntLib!Do, CntLib!SetDigitalFilter, CntLib!CopyIoctl, CntLib!set_digital_filter
<1>2. f \in [CntLib!Channels -> CntBytes]
  <2>1. v % 256 \in CntBytes
    BY DEF CntBytes, CntLib!Byte
  <2> QED  BY <2>1 DEF CntDev
<1> HIDE DEF e, f
<1>3. CntBut(d, e, {"filter"}) /\ e.filter = f
  BY <1>1, <1>2, CntPutFilter
<1>4. e \in CntDev /\ e.name = d.name /\ e.status = d.status
  BY <1>3 DEF CntBut
<1>5. CntLib!Settles(d, r) = [k \in {<<"SetDigitalFilter", ch>>} |-> v] /\ CntLib!Forgets(r) = {}
  BY DEF CntLib!Settles, CntLib!Forgets
<1>6. <<"SetDigitalFilter", ch>> \in CntKeys
  BY DEF CntKeys
<1>7. CntLib!Answers(e, <<"SetDigitalFilter", ch>>) = {v}
  <2>1. e.filter[ch] = v % 256
    BY <1>3 DEF f, CntDev
  <2>2. v % 256 = v
    BY DEF CntLib!Byte
  <2> QED  BY <1>4, <2>1, <2>2, CntFilterIs
<1>8. CntFrame(d, e, {<<"SetDigitalFilter", ch>>} \cup CntLib!Forgets(r))
  <2>1. \A s \in CntLib!Channels : s # ch => e.filter[s] = d.filter[s]
    BY <1>3 DEF f, CntDev
  <2> QED  BY <1>3, <2>1 DEF CntFrame, CntSameAt, CntBut, CntKeys, CntLib!get_op_mode
<1>9. CntGives(d, r, e)
  BY <1>4, <1>5, <1>6, <1>7, <1>8, CntSettlesOne
<1> QED
  BY <1>9 DEF e

LEMMA CntSetPulse ==
  ASSUME NEW d \in CntDev, NEW r, NEW ch \in CntLib!Channels, r.ch = ch, r.call = "SetPulseWidth", ch = 0, NEW v, CntLib!Byte(v), r.val = v
  PROVE  CntGives(d, r, CntLib!Do(d, r))
<1> DEFINE e == CntLib!Do(d, r)
           f == v % 256
<1>1. e = [d EXCEPT !.pulsewidth = f]
  BY DEF CntLib!Do, CntLib!SetPulseWidth, CntLib!CopyIoctl, CntLib!set_pulse_width
<1>2. f \in CntBytes
  BY DEF CntBytes, CntLib!Byte
<1> HIDE DEF e, f
<1>3. CntBut(d, e, {"pulsewidth"}) /\ e.pulsewidth = f
  BY <1>1, <1>2, CntPutPulse
<1>4. e \in CntDev /\ e.name = d.name /\ e.status = d.status
  BY <1>3 DEF CntBut
<1>5. CntLib!Settles(d, r) = [k \in {<<"SetPulseWidth", ch>>} |-> v] /\ CntLib!Forgets(r) = {}
  BY DEF CntLib!Settles, CntLib!Forgets
<1>6. <<"SetPulseWidth", ch>> \in CntKeys
  BY DEF CntKeys
<1>7. CntLib!Answers(e, <<"SetPulseWidth", ch>>) = {v}
  <2>2. v % 256 = v
    BY DEF CntLib!Byte
  <2> QED  BY <1>3, <1>4, <2>2, CntPulseIs DEF f
<1>8. CntFrame(d, e, {<<"SetPulseWidth", ch>>} \cup CntLib!Forgets(r))
  BY <1>3 DEF CntFrame, CntSameAt, CntBut, CntKeys, CntLib!get_op_mode
<1>9. CntGives(d, r, e)
  BY <1>4, <1>5, <1>6, <1>7, <1>8, CntSettlesOne
<1> QED
  BY <1>9 DEF e

LEMMA CntSetSignal ==
  ASSUME NEW d \in CntDev, NEW r, NEW ch \in CntLib!Channels, r.ch = ch, r.call = "SelectChannelSignal", NEW v \in {0, 1}, r.val = v
  PROVE  CntGives(d, r, CntLib!Do(d, r))
<1> DEFINE e == CntLib!Do(d, r)
           f == IF v % 2 = 1 THEN {ch} ELSE {}
<1>1. e = [d EXCEPT !.input_sig = f]
  BY DEF CntLib!Do, CntLib!SelectChannelSignal, CntLib!CopyIoctl, CntLib!set_selectsignal
<1>2. f \in SUBSET CntBits
  BY DEF CntLib!Channels, CntBits
<1> HIDE DEF e, f
<1>3. CntBut(d, e, {"input_sig"}) /\ e.input_sig = f
  BY <1>1, <1>2, CntPutSignal
<1>4. e \in CntDev /\ e.name = d.name /\ e.status = d.status
  BY <1>3 DEF CntBut
<1> DEFINE S == {<<"SelectChannelSignal", c>> : c \in CntLib!Channels}
<1>5. CntLib!Forgets(r) = {} /\ DOMAIN CntLib!Settles(d, r) = S
      /\ \A c \in CntLib!Channels : CntLib!Settles(d, r)[<<"SelectChannelSignal", c>>] = IF c = ch THEN v ELSE 0
  BY DEF CntLib!Settles, CntLib!Forgets, CntLib!Signal, CntLib!Signals
<1>6. S \subseteq CntKeys
  BY DEF CntKeys
<1>7. ASSUME NEW c \in CntLib!Channels
      PROVE  CntLib!Answers(e, <<"SelectChannelSignal", c>>) = {CntLib!Settles(d, r)[<<"SelectChannelSignal", c>>]}
  <2>1. (c \in e.input_sig) <=> (v = 1 /\ c = ch)
    BY <1>3 DEF f
  <2>2. CntLib!Answers(e, <<"SelectChannelSignal", c>>) = {IF c \in e.input_sig THEN 1 ELSE 0}
    BY CntSignalIs
  <2> QED  BY <1>5, <2>1, <2>2
<1>8. CntFrame(d, e, S)
  BY <1>3 DEF CntFrame, CntSameAt, CntBut, CntKeys, CntLib!get_op_mode
<1>9. CntGives(d, r, e)
  <2>1. \A k \in CntKeys \ S : CntStays(d, e, k)
    BY <1>4, <1>8, CntKeeps
  <2>2. \A k \in S : CntLib!Answers(e, k) = {CntLib!Settles(d, r)[k]}
    BY <1>7
  <2> HIDE DEF S
  <2> QED  BY <1>4, <1>5, <1>6, <2>1, <2>2 DEF CntGives
<1> QED
  BY <1>9 DEF e

LEMMA CntSetMode ==
  ASSUME NEW d \in CntDev, NEW r, NEW ch \in CntLib!Channels, r.ch = ch, r.call = "SetOperationMode", NEW v \in 1..4, r.val = v
  PROVE  CntGives(d, r, CntLib!Do(d, r))
<1> DEFINE e == CntLib!Do(d, r)
           f == [d.mode EXCEPT ![ch] = (@ \ {0, 1, 2, 4}) \cup CntLib!ModeBits[v]]
<1>1. e = [d EXCEPT !.mode = f]
  <2> DEFINE P == CntLib!Modes[v][1]
             M == CntLib!Modes[v][2]
             D == CntLib!Modes[v][3]
             mul == {b \in {0, 1} : CntLib!HasBit(M, b)}
             valb == CASE P = "GATECONTROL" -> {0, 1} \cup (IF M = 1 THEN {2} ELSE {})
                       [] P = "1PHASE" -> {0, 1, 4}
                       [] P = "2PHASE" -> mul \cup (IF D = 0 THEN {2} ELSE {})
  <2>1. e = CntLib!SetOperationMode(d, ch, P, M, D)
    BY DEF CntLib!Do
  <2>2. CntLib!SetOperationMode(d, ch, P, M, D) = CntLib!CopyIoctl(d, "SET_MODE", ch, valb)
    BY DEF CntLib!SetOperationMode, CntLib!sel0, CntLib!sel1, CntLib!sel2, CntLib!ub
  <2>3. valb = CntLib!ModeBits[v]
    <3>0. CntLib!Weight[0 + 1] = 1 /\ CntLib!Weight[1 + 1] = 2
      BY DEF CntLib!Weight
    <3>1. CntLib!HasBit(2, 1) /\ ~CntLib!HasBit(2, 0) /\ CntLib!HasBit(1, 0) /\ ~CntLib!HasBit(1, 1)
      BY <3>0 DEF CntLib!HasBit, CntLib!Bit
    <3>2. CASE v = 1
      <4>1. P = "GATECONTROL" /\ M = 1
        BY <3>2 DEF CntLib!Modes
      <4> QED  BY <3>2, <4>1 DEF CntLib!ModeBits
    <3>3. CASE v = 2
      <4>1. P = "1PHASE"
        BY <3>3 DEF CntLib!Modes
      <4> QED  BY <3>3, <4>1 DEF CntLib!ModeBits
    <3>4. CASE v = 3
      <4>1. P = "2PHASE" /\ M = 2 /\ D = 0
        BY <3>4 DEF CntLib!Modes
      <4>2. mul = {1}
        BY <3>1, <4>1
      <4> HIDE DEF mul, P, M, D
      <4>3. valb = mul \cup {2}
        BY <4>1
      <4>4. {1} \cup {2} = CntLib!ModeBits[v]
        BY <3>4 DEF CntLib!ModeBits
      <4> HIDE DEF valb
      <4> QED  BY <4>2, <4>3, <4>4
    <3>5. CASE v = 4
      <4>1. P = "2PHASE" /\ M = 1 /\ D = 1
        BY <3>5 DEF CntLib!Modes
      <4>2. mul = {0}
        BY <3>1, <4>1
      <4> QED  BY <3>5, <4>1, <4>2 DEF CntLib!ModeBits
    <3> HIDE DEF valb
    <3> QED  BY <3>2, <3>3, <3>4, <3>5
  <2>4. CntLib!ModeBits[v] \cap {0, 1, 2, 4} = CntLib!ModeBits[v]
    BY DEF CntLib!ModeBits
  <2> HIDE DEF valb, P, M, D, e
  <2>5. e = CntLib!set_op_mode(ch, d, CntLib!ModeBits[v])
    BY <2>1, <2>2, <2>3 DEF CntLib!CopyIoctl
  <2> QED
    BY <2>4, <2>5 DEF CntLib!set_op_mode, CntLib!sel0, CntLib!sel1, CntLib!sel2, CntLib!ub
<1>2. f \in [CntLib!Channels -> SUBSET CntBits]
  BY DEF CntDev, CntLib!ModeBits, CntBits
<1> HIDE DEF e, f
<1>3. CntBut(d, e, {"mode"}) /\ e.mode = f
  BY <1>1, <1>2, CntPutMode
<1>4. e \in CntDev /\ e.name = d.name /\ e.status = d.status
  BY <1>3 DEF CntBut
<1>5. CntLib!Settles(d, r) = [k \in {<<"SetOperationMode", ch>>} |-> v] /\ CntLib!Forgets(r) = {}
  BY DEF CntLib!Settles, CntLib!Forgets
<1>6. <<"SetOperationMode", ch>> \in CntKeys
  BY DEF CntKeys
<1>7. CntLib!Answers(e, <<"SetOperationMode", ch>>) = {v}
  <2>1. e.mode[ch] = (d.mode[ch] \ {0, 1, 2, 4}) \cup CntLib!ModeBits[v]
    BY <1>3 DEF f, CntDev
  <2>2. CntLib!ModeBits[v] \subseteq {0, 1, 2, 4}
    BY DEF CntLib!ModeBits
  <2>3. CntLib!get_op_mode(ch, e) = CntLib!ModeBits[v]
    BY <2>1, <2>2 DEF CntLib!get_op_mode, CntLib!sel0, CntLib!sel1, CntLib!sel2, CntLib!ub
  <2>4. \A m \in 1..4 : CntLib!ModeBits[m] = CntLib!ModeBits[v] => m = v
    <3>1. CntLib!ModeBits[1] = {0, 1, 2} /\ CntLib!ModeBits[2] = {0, 1, 4} /\ CntLib!ModeBits[3] = {1, 2} /\ CntLib!ModeBits[4] = {0}
      BY DEF CntLib!ModeBits
    <3>2. {0, 1, 2} # {0, 1, 4} /\ {0, 1, 2} # {1, 2} /\ {0, 1, 2} # {0} /\ {0, 1, 4} # {1, 2} /\ {0, 1, 4} # {0} /\ {1, 2} # {0}
      <4>1. 2 \in {0, 1, 2} /\ 2 \notin {0, 1, 4} /\ 0 \in {0, 1, 2} /\ 0 \notin {1, 2} /\ 2 \notin {0} /\ 2 \in {1, 2} /\ 1 \in {0, 1, 4} /\ 1 \notin {0}
        OBVIOUS
      <4> QED  BY <4>1
    <3> QED  BY <3>1, <3>2
  <2>5. DOMAIN CntLib!Modes = 1..4
    BY DEF CntLib!Modes
  <2>6. CntLib!Answers(e, <<"SetOperationMode", ch>>) = {m \in 1..4 : CntLib!ModeBits[m] = CntLib!ModeBits[v]}
    BY <1>4, <2>3, <2>5, CntModeIs
  <2> QED  BY <2>4, <2>6
<1>8. CntFrame(d, e, {<<"SetOperationMode", ch>>} \cup CntLib!Forgets(r))
  <2>1. \A s \in CntLib!Channels : s # ch => e.mode[s] = d.mode[s]
    BY <1>3 DEF f, CntDev
  <2>2. e.mode[ch] = (d.mode[ch] \ {0, 1, 2, 4}) \cup CntLib!ModeBits[v]
    BY <1>3 DEF f, CntDev
  <2>3. \A b \in {3, 5, 7} : (b \in e.mode[ch]) <=> (b \in d.mode[ch])
    BY <2>2 DEF CntLib!ModeBits
  <2>4. \A s \in CntLib!Channels : s # ch => CntLib!get_op_mode(s, e) = CntLib!get_op_mode(s, d)
    BY <2>1 DEF CntLib!get_op_mode
  <2>5. \A s \in CntLib!Channels, b \in {3, 5, 7} : (b \in e.mode[s]) <=> (b \in d.mode[s])
    BY <2>1, <2>3
  <2> QED  BY <1>3, <2>4, <2>5 DEF CntFrame, CntSameAt, CntBut, CntKeys
<1>9. CntGives(d, r, e)
  BY <1>4, <1>5, <1>6, <1>7, <1>8, CntSettlesOne
<1> QED
  BY <1>9 DEF e

LEMMA CntRegFrame ==
  ASSUME NEW d \in CntDev, NEW e, CntBut(d, e, {"reg"}), NEW a, \A x \in CntLib!Commands \ {a} : e.reg[x] = d.reg[x],
         NEW K, \A s \in CntLib!Channels : a = s * 5 => <<"Preset", s>> \in K,
         \A s \in CntLib!Channels : a # s * 5 + 1 /\ a # s * 5 + 3,
         a = 21 => <<"SET_INTERRUPT_MASK", 0>> \in K, a = 23 => <<"SET_TIMER_DATA", 0>> \in K
  PROVE  CntFrame(d, e, K)
<1>1. \A s \in CntLib!Channels : /\ (a # s * 5) => (e.reg[s * 5] = d.reg[s * 5])
                                 /\ e.reg[s * 5 + 1] = d.reg[s * 5 + 1] /\ e.reg[s * 5 + 3] = d.reg[s * 5 + 3]
  BY CntAddresses
<1>2. (a # 21 => e.reg[21] = d.reg[21]) /\ (a # 23 => e.reg[23] = d.reg[23])
  BY CntAddresses
<1> QED
  BY <1>1, <1>2 DEF CntFrame, CntSameAt, CntBut, CntKeys, CntLib!get_op_mode

LEMMA CntSetPreset ==
  ASSUME NEW d \in CntDev, NEW r, NEW ch \in CntLib!Channels, r.ch = ch, r.call = "Preset", NEW v \in Nat, CntLib!Long(v), r.val = v
  PROVE  CntGives(d, r, CntLib!Do(d, r))
<1> DEFINE e == CntLib!Do(d, r)
           w == CntLib!Number(CntLib!ulong2uchar(v), 4)
<1>1. e = CntLib!Write(d, ch * 5, 4, v)
  <2>1. e = CntLib!Preset(d, {ch}, v)
    BY DEF CntLib!Do
  <2>2. (ch = 0) \/ (ch = 1)
    BY DEF CntLib!Channels
  <2>3. e = CntLib!CountIoctl(d, "INIT_COUNT", ch, v)
    BY <2>1, <2>2 DEF CntLib!Preset
  <2> QED  BY <2>3 DEF CntLib!CountIoctl, CntLib!COUNT
<1>2. w = v
  BY CntLong
<1> HIDE DEF e, w
<1>3. CntWrote(d, e, ch * 5, v)
  BY <1>1, <1>2, CntAddresses, CntWrite DEF w, CntWrote
<1>4. e.reg[ch * 5] = v /\ \A x \in CntLib!Commands \ {ch * 5} : e.reg[x] = d.reg[x]
  BY <1>3, CntAddresses, CntWroteAt
<1>5. e \in CntDev /\ e.name = d.name /\ e.status = d.status
  BY <1>3 DEF CntWrote, CntBut
<1>6. CntLib!Settles(d, r) = [k \in {<<"Preset", ch>>} |-> v] /\ CntLib!Forgets(r) = {}
  BY DEF CntLib!Settles, CntLib!Forgets
<1>7. <<"Preset", ch>> \in CntKeys
  BY DEF CntKeys
<1>8. CntLib!Answers(e, <<"Preset", ch>>) = {v}
  BY <1>2, <1>4, <1>5, CntPreset DEF CntCount, w
<1> DEFINE a == ch * 5
           K == {<<"Preset", ch>>} \cup CntLib!Forgets(r)
<1>9. CntFrame(d, e, K)
  <2>1. \A s \in CntLib!Channels : (a = s * 5 => <<"Preset", s>> \in K) /\ a # s * 5 + 1 /\ a # s * 5 + 3
    BY CntAddresses
  <2>2. a # 21 /\ a # 23
    BY CntAddresses
  <2>3. \A x \in CntLib!Commands \ {a} : e.reg[x] = d.reg[x]
    BY <1>4
  <2>4. CntBut(d, e, {"reg"})
    BY <1>3 DEF CntWrote
  <2> HIDE DEF a, K
  <2> QED  BY <2>1, <2>2, <2>3, <2>4, CntRegFrame
<1>10. CntGives(d, r, e)
  BY <1>5, <1>6, <1>7, <1>8, <1>9, CntSettlesOne
<1> QED
  BY <1>10 DEF e

\* The registers a program reaches without the library.
CntRegister(call) == CASE call = "SET_INTERRUPT_MASK" -> 21 [] call = "SET_TIMER_DATA" -> 23 [] call = "RESET_SENCE" -> 22

LEMMA CntRegisterWrite ==
  ASSUME NEW d \in CntDev, NEW r, r.call \in {"SET_INTERRUPT_MASK", "SET_TIMER_DATA", "RESET_SENCE"}, NEW v \in Nat, r.val = v,
         (r.call = "SET_TIMER_DATA") => CntLib!Long(v), (r.call # "SET_TIMER_DATA") => CntLib!Byte(v),
         NEW e, e = CntLib!Do(d, r)
  PROVE  CntWrote(d, e, CntRegister(r.call), v) /\ CntRegister(r.call) \in CntLib!Commands
<1> DEFINE a == CntRegister(r.call)
           size == IF r.call = "SET_TIMER_DATA" THEN 4 ELSE 1
<1>1. a \in CntLib!Commands
  BY CntAddresses DEF CntRegister
<1>2. e = CntLib!Write(d, a, size, v)
  BY DEF CntLib!Do, CntLib!RegisterIoctl, CntLib!RegisterOf, CntRegister, CntLib!SENCE_PORT, CntLib!INTERRUPT_MASK, CntLib!TIMER_DATA
<1>3. CntLib!Number(CntLib!ulong2uchar(v), size) = v
  <2>1. CASE r.call = "SET_TIMER_DATA"
    BY <2>1, CntLong
  <2>2. CASE r.call # "SET_TIMER_DATA"
    <3>1. v % 256 = v
      BY <2>2 DEF CntLib!Byte
    <3> QED  BY <2>2, <3>1, CntByte
  <2> QED  BY <2>1, <2>2
<1>4. size \in {1, 4} /\ v \in Int
  OBVIOUS
<1> HIDE DEF a, size
<1>5. CntBut(d, e, {"reg"}) /\ e.reg = [d.reg EXCEPT ![a] = CntLib!Number(CntLib!ulong2uchar(v), size)]
  BY <1>1, <1>2, <1>4, CntWrite
<1> QED
  BY <1>1, <1>3, <1>5 DEF CntWrote, a

LEMMA CntSetRegister ==
  ASSUME NEW d \in CntDev, NEW r, r.ch = 0, r.call \in {"SET_INTERRUPT_MASK", "SET_TIMER_DATA"}, NEW v \in Nat, r.val = v,
         (r.call = "SET_TIMER_DATA") => CntLib!Long(v), (r.call # "SET_TIMER_DATA") => CntLib!Byte(v)
  PROVE  CntGives(d, r, CntLib!Do(d, r))
<1> DEFINE e == CntLib!Do(d, r)
           a == CntRegister(r.call)
           c == r.call
<1>1. CntWrote(d, e, a, v) /\ a \in CntLib!Commands
  BY CntRegisterWrite
<1>2. CntLib!Settles(d, r) = [k \in {<<c, 0>>} |-> v] /\ CntLib!Forgets(r) = {}
  BY DEF CntLib!Settles, CntLib!Forgets
<1>3. <<c, 0>> \in CntKeys
  BY DEF CntKeys
<1>4. (c = "SET_INTERRUPT_MASK" /\ a = 21) \/ (c = "SET_TIMER_DATA" /\ a = 23)
  BY DEF CntRegister
<1> HIDE DEF e, a
<1>5. e.reg[a] = v /\ \A x \in CntLib!Commands \ {a} : e.reg[x] = d.reg[x]
  BY <1>1, CntWroteAt
<1>6. CntBut(d, e, {"reg"}) /\ e \in CntDev /\ e.name = d.name /\ e.status = d.status
  BY <1>1 DEF CntWrote, CntBut
<1>7. CntLib!Answers(e, <<c, 0>>) = {v}
  <2>1. CASE c = "SET_INTERRUPT_MASK"
    <3>1. e.reg[21] % 256 = v
      BY <1>4, <1>5, <2>1 DEF CntLib!Byte
    <3>2. CntLib!Answers(e, <<c, 0>>) = {e.reg[21] % 256}
      BY <2>1, CntMaskIs
    <3> QED  BY <3>1, <3>2
  <2>2. CASE c = "SET_TIMER_DATA"
    <3>1. CntLib!Number(CntLib!ulong2uchar(v), 4) = v
      BY <2>2, CntLong
    <3>2. CntLib!Answers(e, <<c, 0>>) = {CntLib!Number(CntLib!ulong2uchar(e.reg[23]), 4)}
      BY <2>2, CntTimerIs
    <3>3. e.reg[23] = v
      BY <1>4, <1>5, <2>2
    <3> QED  BY <3>1, <3>2, <3>3
  <2> QED  BY <2>1, <2>2
<1>8. CntFrame(d, e, {<<c, 0>>} \cup CntLib!Forgets(r))
  <2> DEFINE K == {<<c, 0>>} \cup CntLib!Forgets(r)
  <2>1. \A s \in CntLib!Channels : a # s * 5 /\ a # s * 5 + 1 /\ a # s * 5 + 3
    BY <1>4, CntAddresses
  <2>2. (a = 21 => <<"SET_INTERRUPT_MASK", 0>> \in K) /\ (a = 23 => <<"SET_TIMER_DATA", 0>> \in K)
    BY <1>4
  <2> HIDE DEF K
  <2>3. CntFrame(d, e, K)
    BY <1>5, <1>6, <2>1, <2>2, CntRegFrame
  <2> QED  BY <2>3 DEF K
<1>9. CntGives(d, r, e)
  BY <1>2, <1>3, <1>6, <1>7, <1>8, CntSettlesOne
<1> QED
  BY <1>9 DEF e

LEMMA CntResetSence ==
  ASSUME NEW d \in CntDev, NEW r, r.call = "RESET_SENCE", NEW v \in Nat, r.val = v, CntLib!Byte(v)
  PROVE  CntGives(d, r, CntLib!Do(d, r))
<1> DEFINE e == CntLib!Do(d, r)
<1>1. CntWrote(d, e, 22, v) /\ 22 \in CntLib!Commands
  <2>1. CntRegister(r.call) = 22
    BY DEF CntRegister
  <2>2. CntWrote(d, e, CntRegister(r.call), v) /\ CntRegister(r.call) \in CntLib!Commands
    BY CntRegisterWrite
  <2> QED  BY <2>1, <2>2
<1>2. CntLib!Settles(d, r) = <<>> /\ CntLib!Forgets(r) = {}
  BY DEF CntLib!Settles, CntLib!Forgets
<1> HIDE DEF e
<1>3. \A x \in CntLib!Commands \ {22} : e.reg[x] = d.reg[x]
  BY <1>1, CntWroteAt
<1>4. CntBut(d, e, {"reg"}) /\ e \in CntDev /\ e.name = d.name /\ e.status = d.status
  BY <1>1 DEF CntWrote, CntBut
<1>5. CntFrame(d, e, {})
  <2>1. \A s \in CntLib!Channels : 22 # s * 5 /\ 22 # s * 5 + 1 /\ 22 # s * 5 + 3
    BY CntAddresses
  <2>2. PICK a : a = 22
    OBVIOUS
  <2>3. /\ \A s \in CntLib!Channels : a # s * 5 /\ a # s * 5 + 1 /\ a # s * 5 + 3
        /\ a # 21 /\ a # 23 /\ \A x \in CntLib!Commands \ {a} : e.reg[x] = d.reg[x]
    BY <1>3, <2>1, <2>2
  <2> QED  BY <1>4, <2>3, CntRegFrame
<1>6. \A k \in CntKeys \ {} : CntStays(d, e, k)
  BY <1>4, <1>5, CntKeeps
<1>7. DOMAIN CntLib!Settles(d, r) = {}
  BY <1>2
<1>8. CntGives(d, r, e)
  BY <1>2, <1>4, <1>6, <1>7 DEF CntGives
<1> QED
  BY <1>8 DEF e

LEMMA CntGetDirection ==
  ASSUME NEW d \in CntDev, NEW r, NEW ch \in CntLib!Channels, r.ch = ch, r.call = "GetCountDirection", NEW v \in Nat, r.val = v
  PROVE  CntGives(d, r, CntLib!Do(d, r))
<1> DEFINE e == CntLib!Do(d, r)
           f == [d.mode EXCEPT ![ch] = CntLib!With(@, 3, v)]
<1>1. e = [d EXCEPT !.mode = f]
  BY DEF CntLib!Do, CntLib!GetCountDirection, CntLib!CopyIoctl, CntLib!set_count_direction, CntLib!dir
<1>2. f \in [CntLib!Channels -> SUBSET CntBits]
  BY DEF CntDev, CntLib!With, CntBits
<1> HIDE DEF e, f
<1>3. CntBut(d, e, {"mode"}) /\ e.mode = f
  BY <1>1, <1>2, CntPutMode
<1>4. e \in CntDev /\ e.name = d.name /\ e.status = d.status
  BY <1>3 DEF CntBut
<1>5. DOMAIN CntLib!Settles(d, r) = {} /\ CntLib!Forgets(r) = {<<"SetCountDirection", ch>>}
  BY DEF CntLib!Settles, CntLib!Forgets
<1>6. CntFrame(d, e, CntLib!Forgets(r))
  <2>1. \A s \in CntLib!Channels : s # ch => e.mode[s] = d.mode[s]
    BY <1>3 DEF f, CntDev
  <2>2. e.mode[ch] = CntLib!With(d.mode[ch], 3, v)
    BY <1>3 DEF f, CntDev
  <2>3. \A b : b # 3 => ((b \in e.mode[ch]) <=> (b \in d.mode[ch]))
    BY <2>2 DEF CntLib!With
  <2>4. \A s \in CntLib!Channels : CntLib!get_op_mode(s, e) = CntLib!get_op_mode(s, d)
    <3> TAKE s \in CntLib!Channels
    <3>1. \A b \in {0, 1, 2, 4} : (b \in e.mode[s]) <=> (b \in d.mode[s])
      BY <2>1, <2>3
    <3> QED  BY <3>1 DEF CntLib!get_op_mode, CntLib!sel0, CntLib!sel1, CntLib!sel2, CntLib!ub
  <2>5. \A s \in CntLib!Channels : \A b : b # 3 => ((b \in e.mode[s]) <=> (b \in d.mode[s]))
    BY <2>1, <2>3
  <2> QED  BY <1>3, <1>5, <2>1, <2>4, <2>5 DEF CntFrame, CntSameAt, CntBut, CntKeys
<1>7. \A k \in CntKeys \ CntLib!Forgets(r) : CntStays(d, e, k)
  BY <1>4, <1>6, CntKeeps
<1>8. CntGives(d, r, e)
  BY <1>4, <1>5, <1>7 DEF CntGives
<1> QED
  BY <1>8 DEF e

LEMMA CntSetCompare ==
  ASSUME NEW d \in CntDev, NEW r, NEW ch \in CntLib!Channels, r.ch = ch, r.call = "NotifyCountUp", NEW v \in Nat, CntLib!Long(v), r.val = v
  PROVE  CntGives(d, r, CntLib!Do(d, r))
<1> DEFINE e == CntLib!Do(d, r)
           f == [d.compare EXCEPT ![ch] = v]
           x == [d EXCEPT !.compare = f]
           a == ch * 5 + 3
           w == CntLib!Number(CntLib!ulong2uchar(v), 4)
<1>1. e = CntLib!Write(x, a, 4, v)
  BY DEF CntLib!Do, CntLib!NotifyCountUp, CntLib!CountIoctl, CntLib!COMPARE_REG
<1>2. f \in [CntLib!Channels -> {n \in Int : CntLib!Long(n)}]
  BY DEF CntDev
<1>3. w = v
  BY CntLong
<1> HIDE DEF f
<1>4. CntBut(d, x, {"compare"}) /\ x.compare = f
  BY <1>2, CntPutCompare
<1> HIDE DEF e, w, x
<1>5. x \in CntDev /\ a \in CntLib!Commands
  BY <1>4, CntAddresses DEF CntBut
<1>6. CntWrote(x, e, a, v)
  BY <1>1, <1>3, <1>5, CntWrite DEF w, CntWrote
<1> HIDE DEF a
<1>7. e.reg[a] = v /\ \A y \in CntLib!Commands \ {a} : e.reg[y] = x.reg[y]
  BY <1>5, <1>6, CntWroteAt
<1>8. CntBut(d, e, {"compare", "reg"}) /\ e.compare = f /\ x.reg = d.reg
  BY <1>4, <1>6 DEF CntWrote, CntBut
<1>9. e \in CntDev /\ e.name = d.name /\ e.status = d.status
  BY <1>8 DEF CntBut
<1>10. CntLib!Settles(d, r) = [k \in {<<"NotifyCountUp", ch>>} |-> v] /\ CntLib!Forgets(r) = {}
  BY DEF CntLib!Settles, CntLib!Forgets
<1>11. <<"NotifyCountUp", ch>> \in CntKeys
  BY DEF CntKeys
<1>12. CntLib!Answers(e, <<"NotifyCountUp", ch>>) = {v}
  <2>1. e.compare[ch] = v
    BY <1>8 DEF f, CntDev
  <2>2. CntLib!Answers(e, <<"NotifyCountUp", ch>>) = {e.compare[ch], CntLib!Number(CntLib!ulong2uchar(e.reg[ch * 5 + 3]), 4)}
    BY <1>9, CntNotify
  <2> QED  BY <1>3, <1>7, <2>1, <2>2 DEF a, w
<1>13. CntFrame(d, e, {<<"NotifyCountUp", ch>>} \cup CntLib!Forgets(r))
  <2>1. \A s \in CntLib!Channels : s # ch => e.compare[s] = d.compare[s]
    BY <1>8 DEF f, CntDev
  <2>2. \A s \in CntLib!Channels : e.reg[s * 5] = d.reg[s * 5] /\ e.reg[s * 5 + 1] = d.reg[s * 5 + 1]
    BY <1>7, <1>8, CntAddresses DEF a
  <2>3. \A s \in CntLib!Channels : s # ch => e.reg[s * 5 + 3] = d.reg[s * 5 + 3]
    BY <1>7, <1>8, CntAddresses DEF a
  <2>4. e.reg[21] = d.reg[21] /\ e.reg[23] = d.reg[23]
    BY <1>7, <1>8, CntAddresses DEF a
  <2> QED  BY <1>8, <2>1, <2>2, <2>3, <2>4 DEF CntFrame, CntSameAt, CntBut, CntKeys, CntLib!get_op_mode
<1>14. CntGives(d, r, e)
  BY <1>9, <1>10, <1>11, <1>12, <1>13, CntSettlesOne
<1> QED
  BY <1>14 DEF e

\* The parameter of the module changes no setting.
LEMMA CntSetAlways ==
  ASSUME NEW d \in CntDev, NEW r, r.call = "reset_flag_always_on", NEW v, r.val = v
  PROVE  CntGives(d, r, CntLib!Do(d, r))
<1> DEFINE e == CntLib!Do(d, r)
           f == v # 0
<1>1. e = [d EXCEPT !.alwaysOn = f]
  BY DEF CntLib!Do, CntLib!reset_flag_always_on
<1> HIDE DEF e
<1>2. f \in BOOLEAN
  OBVIOUS
<1> HIDE DEF f
<1>3. CntBut(d, e, {"alwaysOn"})
  BY <1>1, <1>2, CntPutAlways
<1>4. DOMAIN CntLib!Settles(d, r) = {} /\ CntLib!Forgets(r) = {}
  BY DEF CntLib!Settles, CntLib!Forgets
<1>5. CntFrame(d, e, {})
  BY <1>3 DEF CntFrame, CntSameAt, CntBut, CntKeys, CntLib!get_op_mode
<1>6. e \in CntDev /\ e.name = d.name /\ e.status = d.status
  BY <1>3 DEF CntBut
<1>7. \A k \in CntKeys \ {} : CntStays(d, e, k)
  BY <1>5, <1>6, CntKeeps
<1>8. CntGives(d, r, e)
  BY <1>4, <1>6, <1>7 DEF CntGives
<1> QED
  BY <1>8 DEF e

LEMMA CntSetLatch ==
  ASSUME NEW d \in CntDev, NEW r, r.call = "ReadCount", NEW chs \in SUBSET CntLib!Channels, r.chs = chs
  PROVE  CntGives(d, r, CntLib!Do(d, r))
<1> DEFINE e == CntLib!Do(d, r)
           v == CntLib!ByteOf(chs)
           x == CntLib!set_count_latch(d, v)
           y == CntLib!Write(x, 20, 1, v)
           f == [c \in CntLib!Channels |-> IF CntLib!HasBit(v, c) THEN CntLib!Read(y, CntLib!COUNT(c), 4) ELSE y.latched[c]]
<1>1. e = [y EXCEPT !.latched = f]
  BY DEF CntLib!Do, CntLib!LatchCounts, CntLib!Latch, CntLib!LATCH_COUNT
<1>2. v \in Int
  <2>1. chs \in SUBSET CntBits
    BY DEF CntLib!Channels, CntBits
  <2> QED  BY <2>1, CntBits8 DEF CntLib!Byte
<1> HIDE DEF e, v
<1>3. CntBut(d, x, {"latch"}) /\ x.latch = v
  BY <1>2, CntPutLatch DEF CntLib!set_count_latch
<1> HIDE DEF x
<1>4. x \in CntDev /\ 1 \in {1, 4}
  BY <1>3 DEF CntBut
<1>5. CntWrote(x, y, 20, CntLib!Number(CntLib!ulong2uchar(v), 1))
  BY <1>2, <1>4, CntAddresses, CntWrite DEF CntWrote
<1> HIDE DEF y
<1>6. \A c \in CntLib!Commands \ {20} : y.reg[c] = x.reg[c]
  BY <1>4, <1>5, CntAddresses, CntWroteAt
<1>7. y \in CntDev
  BY <1>5 DEF CntWrote, CntBut
<1>8. f \in [CntLib!Channels -> Int]
  <2> SUFFICES ASSUME NEW c \in CntLib!Channels
               PROVE  (IF CntLib!HasBit(v, c) THEN CntLib!Read(y, CntLib!COUNT(c), 4) ELSE y.latched[c]) \in Int
    OBVIOUS
  <2>1. y.reg \in [CntLib!Commands -> Int] /\ y.latched[c] \in Int
    BY <1>7 DEF CntDev
  <2>2. CntLib!Read(y, CntLib!COUNT(c), 4) \in Int
    BY <2>1, CntAddresses, CntWord DEF CntLib!Read, CntLib!COUNT
  <2> QED  BY <2>1, <2>2
<1> HIDE DEF f
<1>9. CntBut(y, e, {})
  BY <1>1, <1>7, <1>8, CntPutLatched
<1>10. CntBut(d, e, {"latch", "reg"}) /\ e.latch = v /\ e.reg = y.reg /\ x.reg = d.reg
  BY <1>3, <1>5, <1>9 DEF CntBut, CntWrote
<1>11. e \in CntDev /\ e.name = d.name /\ e.status = d.status
  BY <1>10 DEF CntBut
<1>12. CntLib!Settles(d, r) = << >> /\ CntLib!Forgets(r) = {}
  BY DEF CntLib!Settles, CntLib!Forgets
<1>13. CntFrame(d, e, {})
  <2>1. \A c \in CntLib!Channels : e.reg[c * 5] = d.reg[c * 5] /\ e.reg[c * 5 + 1] = d.reg[c * 5 + 1] /\ e.reg[c * 5 + 3] = d.reg[c * 5 + 3]
    BY <1>6, <1>10, CntAddresses
  <2>2. e.reg[21] = d.reg[21] /\ e.reg[23] = d.reg[23]
    BY <1>6, <1>10, CntAddresses
  <2> QED  BY <1>10, <2>1, <2>2 DEF CntFrame, CntSameAt, CntBut, CntKeys, CntLib!get_op_mode
<1>14. \A k \in CntKeys \ {} : CntStays(d, e, k)
  BY <1>11, <1>13, CntKeeps
<1>15. DOMAIN CntLib!Settles(d, r) = {}
  BY <1>12
<1>16. CntGives(d, r, e)
  BY <1>11, <1>12, <1>14, <1>15 DEF CntGives
<1> QED
  BY <1>16 DEF e

LEMMA CntRunFrame ==
  ASSUME NEW d \in CntDev, NEW e, NEW S, CntRun(d, e, S), NEW K, \A s \in S : <<"counting", s>> \in K /\ <<"flag", s>> \in K,
         \A s \in CntLib!Channels : (e.input_sig = d.input_sig) \/ (<<"SelectChannelSignal", s>> \in K)
  PROVE  CntFrame(d, e, K)
<1>1. \A s \in CntLib!Channels : CntLib!get_op_mode(s, e) = CntLib!get_op_mode(s, d)
  <2> TAKE s \in CntLib!Channels
  <2>1. \A b \in {0, 1, 2, 4} : (b \in e.mode[s]) <=> (b \in d.mode[s])
    BY DEF CntRun
  <2> QED  BY <2>1 DEF CntLib!get_op_mode, CntLib!sel0, CntLib!sel1, CntLib!sel2, CntLib!ub
<1>2. \A s \in CntLib!Channels, b \in {3, 5} : (b \in e.mode[s]) <=> (b \in d.mode[s])
  BY DEF CntRun
<1>3. \A s \in CntLib!Channels \ S : (7 \in e.mode[s]) <=> (7 \in d.mode[s])
  BY DEF CntRun
<1>4. \A s \in CntLib!Channels : (<<"counting", s>> \notin K) => (e.reg[s * 5 + 1] = d.reg[s * 5 + 1])
  BY DEF CntRun
<1>5. \A s \in CntLib!Channels : (<<"flag", s>> \notin K) => ((7 \in e.mode[s]) <=> (7 \in d.mode[s]))
  BY <1>3
<1>6. /\ \A s \in CntLib!Channels : e.reg[s * 5] = d.reg[s * 5]
      /\ \A s \in CntLib!Channels : (e.reg[s * 5 + 3] = d.reg[s * 5 + 3]) \/ (e.reg[s * 5 + 3] = d.compare[s])
      /\ e.reg[21] = d.reg[21] /\ e.reg[23] = d.reg[23] /\ e.compare = d.compare /\ e.filter = d.filter
      /\ e.zPhase = d.zPhase /\ e.pulsewidth = d.pulsewidth
  BY DEF CntRun, CntBut
<1> QED
  BY <1>1, <1>2, <1>4, <1>5, <1>6 DEF CntFrame, CntSameAt, CntKeys

\* A channel counts, and its flag is, as the gate says.
CntGated(d, e, s, v) == CntOn(e, s) = CntGate(d, s, v) /\ ((7 \in e.mode[s]) <=> (CntGate(d, s, v) = 1))

LEMMA CntGateLater ==
  ASSUME NEW d, NEW e, NEW S, CntRun(d, e, S), NEW s \in CntLib!Channels \ S, NEW v
  PROVE  CntGate(e, s, v) = CntGate(d, s, v) /\ CntOn(e, s) = CntOn(d, s) /\ e.mode[s] = d.mode[s]
BY DEF CntRun, CntBut, CntGate, CntOn

\* One channel after the other: x, then y, then z.
LEMMA CntBothOf ==
  ASSUME NEW x \in CntDev, NEW y, NEW z, NEW v \in {0, 1}, NEW chs \in SUBSET CntLib!Channels,
         IF 0 \in chs THEN CntRun(x, y, {0}) /\ y.input_sig = x.input_sig /\ CntGated(x, y, 0, v) ELSE y = x,
         IF 1 \in chs THEN CntRun(y, z, {1}) /\ z.input_sig = y.input_sig /\ CntGated(y, z, 1, v) ELSE z = y
  PROVE  CntRun(x, z, chs) /\ z.input_sig = x.input_sig /\ \A s \in chs : CntGated(x, z, s, v)
<1>1. CntLib!Channels = {0, 1}
  BY DEF CntLib!Channels
<1>2. \A d \in CntDev : CntRun(d, d, {})
  BY DEF CntRun, CntBut
<1> DEFINE S == chs \cap {0}
           T == chs \cap {1}
<1>3. CntRun(x, y, S) /\ y.input_sig = x.input_sig /\ (0 \in chs => CntGated(x, y, 0, v))
  <2>1. CASE 0 \in chs
    <3>1. S = {0}
      BY <2>1
    <3> QED  BY <2>1, <3>1
  <2>2. CASE 0 \notin chs
    <3>1. S = {} /\ y = x
      BY <2>2
    <3> QED  BY <1>2, <2>2, <3>1
  <2> QED  BY <2>1, <2>2
<1>4. y \in CntDev
  BY <1>3 DEF CntRun, CntBut
<1>5. CntRun(y, z, T) /\ z.input_sig = y.input_sig /\ (1 \in chs => CntGated(y, z, 1, v))
  <2>1. CASE 1 \in chs
    <3>1. T = {1}
      BY <2>1
    <3> QED  BY <2>1, <3>1
  <2>2. CASE 1 \notin chs
    <3>1. T = {} /\ z = y
      BY <2>2
    <3> QED  BY <1>2, <1>4, <2>2, <3>1
  <2> QED  BY <2>1, <2>2
<1>6. ASSUME 0 \in chs
      PROVE  CntGated(x, z, 0, v)
  <2>1. 0 \in CntLib!Channels \ T
    BY <1>1
  <2>2. CntOn(z, 0) = CntOn(y, 0) /\ z.mode[0] = y.mode[0]
    <3> HIDE DEF T
    <3> QED  BY <1>5, <2>1, CntGateLater
  <2> QED  BY <1>3, <1>6, <2>2 DEF CntGated
<1>7. ASSUME 1 \in chs
      PROVE  CntGated(x, z, 1, v)
  <2>1. 1 \in CntLib!Channels \ S
    BY <1>1
  <2>2. CntGate(y, 1, v) = CntGate(x, 1, v)
    <3> HIDE DEF S
    <3> QED  BY <1>3, <2>1, CntGateLater
  <2> QED  BY <1>5, <1>7, <2>2 DEF CntGated
<1>8. S \cup T = chs
  BY <1>1
<1> HIDE DEF S, T
<1>9. CntRun(x, z, S \cup T)
  BY <1>3, <1>5, CntRunThen
<1>10. \A s \in chs : s = 0 \/ s = 1
  BY <1>1
<1> QED
  BY <1>3, <1>5, <1>6, <1>7, <1>8, <1>9, <1>10

LEMMA CntStarted ==
  ASSUME NEW d \in CntDev, NEW chs \in SUBSET CntLib!Channels, NEW e, e = CntLib!start_by_channel(d, chs)
  PROVE  CntRun(d, e, chs) /\ e.input_sig = CntInput(d) /\ \A s \in chs : CntGated(d, e, s, 1)
<1> DEFINE x == CntLib!StartCommon(d)
           y == IF 0 \in chs THEN CntLib!StartChannel(x, 0) ELSE x
<1>1. e = IF 1 \in chs THEN CntLib!StartChannel(y, 1) ELSE y
  BY DEF CntLib!start_by_channel
<1>2. 0 \in CntLib!Channels /\ 1 \in CntLib!Channels
  BY DEF CntLib!Channels
<1>3. CntRun(d, x, {}) /\ x.mode = d.mode /\ x.input_sig = CntInput(d)
  BY CntStartBoth
<1> HIDE DEF x
<1>4. x \in CntDev
  BY <1>3 DEF CntRun, CntBut
<1>5. IF 0 \in chs THEN CntRun(x, y, {0}) /\ y.input_sig = x.input_sig /\ CntGated(x, y, 0, 1) ELSE y = x
  BY <1>2, <1>4, CntStartOne DEF CntGated
<1>6. y \in CntDev
  BY <1>4, <1>5 DEF CntRun, CntBut
<1> HIDE DEF y
<1>7. IF 1 \in chs THEN CntRun(y, e, {1}) /\ e.input_sig = y.input_sig /\ CntGated(y, e, 1, 1) ELSE e = y
  BY <1>1, <1>2, <1>6, CntStartOne DEF CntGated
<1>8. PICK v \in {0, 1} : v = 1
  OBVIOUS
<1>9. CntRun(x, e, chs) /\ e.input_sig = x.input_sig /\ \A s \in chs : CntGated(x, e, s, v)
  BY <1>4, <1>5, <1>7, <1>8, CntBothOf
<1>10. \A s \in chs : CntGate(x, s, v) = CntGate(d, s, v)
  BY <1>3, CntGateLater
<1>11. CntRun(d, e, {} \cup chs) /\ {} \cup chs = chs
  BY <1>3, <1>9, CntRunThen
<1> QED
  BY <1>3, <1>8, <1>9, <1>10, <1>11 DEF CntGated

LEMMA CntStopped ==
  ASSUME NEW d \in CntDev, NEW chs \in SUBSET CntLib!Channels, NEW e, e = CntLib!stop_by_channel(d, chs)
  PROVE  CntRun(d, e, chs) /\ e.input_sig = d.input_sig /\ \A s \in chs : CntGated(d, e, s, 0)
<1> DEFINE y == IF 0 \in chs THEN CntLib!StopChannel(d, 0) ELSE d
<1>1. e = IF 1 \in chs THEN CntLib!StopChannel(y, 1) ELSE y
  BY DEF CntLib!stop_by_channel
<1>2. 0 \in CntLib!Channels /\ 1 \in CntLib!Channels
  BY DEF CntLib!Channels
<1>5. IF 0 \in chs THEN CntRun(d, y, {0}) /\ y.input_sig = d.input_sig /\ CntGated(d, y, 0, 0) ELSE y = d
  BY <1>2, CntStopOne DEF CntGated
<1>6. y \in CntDev
  BY <1>5 DEF CntRun, CntBut
<1> HIDE DEF y
<1>7. IF 1 \in chs THEN CntRun(y, e, {1}) /\ e.input_sig = y.input_sig /\ CntGated(y, e, 1, 0) ELSE e = y
  BY <1>1, <1>2, <1>6, CntStopOne DEF CntGated
<1>8. PICK v \in {0, 1} : v = 0
  OBVIOUS
<1>9. CntRun(d, e, chs) /\ e.input_sig = d.input_sig /\ \A s \in chs : CntGated(d, e, s, v)
  BY <1>5, <1>7, <1>8, CntBothOf
<1> QED
  BY <1>8, <1>9

\* A start or stop settles whether its channels count, and a start the
\* signals.
LEMMA CntGatedAnswers ==
  ASSUME NEW d \in CntDev, NEW e, NEW s, NEW v \in {0, 1}, CntGated(d, e, s, v)
  PROVE  CntLib!Answers(e, <<"counting", s>>) = {CntGate(d, s, v)} /\ CntLib!Answers(e, <<"flag", s>>) = {CntGate(d, s, v)}
<1>1. CntLib!Answers(e, <<"counting", s>>) = {CntGate(d, s, v)}
  BY CntCountingIs DEF CntGated, CntOn
<1>2. CntGate(d, s, v) \in {0, 1}
  BY DEF CntGate
<1>3. (IF 7 \in e.mode[s] THEN 1 ELSE 0) = CntGate(d, s, v)
  BY <1>2 DEF CntGated
<1> QED
  BY <1>1, <1>3, CntFlagIs

LEMMA CntInputBit ==
  ASSUME NEW d \in CntDev, NEW e, e.input_sig = CntInput(d), NEW s \in CntLib!Channels
  PROVE  CntLib!Answers(e, <<"SelectChannelSignal", s>>) = {CntLib!Bit(CntLib!Read(d, CntLib!SELECT_COMMON_INPUT, 1), s)}
<1> DEFINE n == CntLib!Read(d, CntLib!SELECT_COMMON_INPUT, 1)
<1>1. n \in Int
  <2>1. PICK c : c = 26
    OBVIOUS
  <2>2. c \in CntLib!Commands
    BY <2>1 DEF CntLib!Commands
  <2>3. d.reg[c] \in Int
    BY <2>2 DEF CntDev
  <2>4. n = d.reg[c] % 256
    BY <2>1, CntByte DEF CntLib!Read, CntLib!SELECT_COMMON_INPUT
  <2> HIDE DEF n
  <2> QED  BY <2>3, <2>4
<1> HIDE DEF n
<1>2. CntLib!Bit(n, s) \in {0, 1}
  <2>1. (s = 0 /\ CntLib!Bit(n, s) = (n \div 1) % 2) \/ (s = 1 /\ CntLib!Bit(n, s) = (n \div 2) % 2)
    <3>1. CntLib!Weight[0 + 1] = 1 /\ CntLib!Weight[1 + 1] = 2
      BY DEF CntLib!Weight
    <3> QED  BY <3>1 DEF CntLib!Channels, CntLib!Bit
  <2> QED  BY <1>1, <2>1
<1>3. s \in CntBits
  BY DEF CntBits, CntLib!Channels
<1>4. (s \in e.input_sig) <=> (CntLib!Bit(n, s) = 1)
  BY <1>3 DEF CntInput, n, CntLib!HasBit
<1>5. (IF s \in e.input_sig THEN 1 ELSE 0) = CntLib!Bit(n, s)
  BY <1>2, <1>4
<1> QED
  BY <1>5, CntSignalIs DEF n

LEMMA CntCountingGate ==
  ASSUME NEW d, NEW r, NEW v, v = IF r.call = "StartCount" THEN 1 ELSE 0, NEW s
  PROVE  CntLib!Counting(d, r, s) = CntGate(d, s, v)
BY DEF CntLib!Counting, CntGate, CntLib!Flag, CntLib!BitOf, CntLib!reset

LEMMA CntSetStart ==
  ASSUME NEW d \in CntDev, NEW r, NEW chs \in SUBSET CntLib!Channels, r.chs = chs, r.call = "StartCount"
  PROVE  CntGives(d, r, CntLib!Do(d, r))
<1> DEFINE e == CntLib!Do(d, r)
           R == CntLib!Run(chs)
           K == R \cup CntLib!Signals
<1>1. CntRun(d, e, chs) /\ e.input_sig = CntInput(d) /\ \A s \in chs : CntGated(d, e, s, 1)
  <2>1. e = CntLib!start_by_channel(d, chs)
    BY DEF CntLib!Do, CntLib!StartCount
  <2> HIDE DEF e
  <2> QED  BY <2>1, CntStarted
<1>2. CntLib!Settles(d, r) = [k \in K |-> IF k \in CntLib!Signals THEN CntLib!Signal(d, r, k[2]) ELSE CntLib!Counting(d, r, k[2])]
  BY DEF CntLib!Settles
<1>3. CntLib!Forgets(r) = {}
  BY DEF CntLib!Forgets
<1> HIDE DEF e
<1>4. e \in CntDev /\ e.name = d.name /\ e.status = d.status
  BY <1>1 DEF CntRun, CntBut
<1>5. CntFrame(d, e, K)
  <2>1. \A s \in chs : <<"counting", s>> \in K /\ <<"flag", s>> \in K
    BY DEF CntLib!Run
  <2>2. \A s \in CntLib!Channels : <<"SelectChannelSignal", s>> \in K
    BY DEF CntLib!Signals
  <2> HIDE DEF K
  <2> QED  BY <1>1, <2>1, <2>2, CntRunFrame
<1>6. \A k \in CntKeys \ K : CntStays(d, e, k)
  <2> HIDE DEF K
  <2> QED  BY <1>4, <1>5, CntKeeps
<1>7. ASSUME NEW k \in K
      PROVE  CntLib!Answers(e, k) = {CntLib!Settles(d, r)[k]}
  <2>1. CASE k \in CntLib!Signals
    <3>1. PICK s \in CntLib!Channels : k = <<"SelectChannelSignal", s>>
      BY <2>1 DEF CntLib!Signals
    <3>2. CntLib!Settles(d, r)[k] = CntLib!Signal(d, r, s)
      BY <1>2, <1>7, <2>1, <3>1
    <3>3. CntLib!Signal(d, r, s) = CntLib!Bit(CntLib!Read(d, CntLib!SELECT_COMMON_INPUT, 1), s)
      BY DEF CntLib!Signal
    <3> QED  BY <1>1, <3>1, <3>2, <3>3, CntInputBit
  <2>2. CASE k \notin CntLib!Signals
    <3>1. PICK s \in chs : k = <<"counting", s>> \/ k = <<"flag", s>>
      BY <1>7, <2>2 DEF CntLib!Run
    <3>2. CntLib!Settles(d, r)[k] = CntLib!Counting(d, r, s)
      BY <1>2, <1>7, <2>2, <3>1
    <3>3. PICK v \in {0, 1} : v = 1
      OBVIOUS
    <3>4. CntLib!Counting(d, r, s) = CntGate(d, s, v)
      BY <3>3, CntCountingGate
    <3>5. CntGated(d, e, s, v)
      BY <1>1, <3>3
    <3>6. CntLib!Answers(e, <<"counting", s>>) = {CntGate(d, s, v)} /\ CntLib!Answers(e, <<"flag", s>>) = {CntGate(d, s, v)}
      BY <3>5, CntGatedAnswers
    <3>7. CntLib!Answers(e, k) = {CntGate(d, s, v)}
      BY <3>1, <3>6
    <3> QED  BY <3>2, <3>4, <3>7
  <2> QED  BY <2>1, <2>2
<1>8. K \subseteq CntKeys /\ DOMAIN CntLib!Settles(d, r) = K
  <2>1. K \subseteq CntKeys
    BY DEF CntKeys, CntLib!Run, CntLib!Signals
  <2> HIDE DEF K
  <2> QED  BY <1>2, <2>1
<1>9. CntGives(d, r, e)
  BY <1>3, <1>4, <1>6, <1>7, <1>8 DEF CntGives
<1> QED
  BY <1>9 DEF e

LEMMA CntSetStop ==
  ASSUME NEW d \in CntDev, NEW r, NEW chs \in SUBSET CntLib!Channels, r.chs = chs, r.call = "StopCount"
  PROVE  CntGives(d, r, CntLib!Do(d, r))
<1> DEFINE e == CntLib!Do(d, r)
           K == CntLib!Run(chs)
<1>1. CntRun(d, e, chs) /\ e.input_sig = d.input_sig /\ \A s \in chs : CntGated(d, e, s, 0)
  <2>1. e = CntLib!stop_by_channel(d, chs)
    BY DEF CntLib!Do, CntLib!StopCount
  <2> HIDE DEF e
  <2> QED  BY <2>1, CntStopped
<1>2. CntLib!Settles(d, r) = [k \in K |-> CntLib!Counting(d, r, k[2])]
  BY DEF CntLib!Settles
<1>3. CntLib!Forgets(r) = {}
  BY DEF CntLib!Forgets
<1> HIDE DEF e
<1>4. e \in CntDev /\ e.name = d.name /\ e.status = d.status
  BY <1>1 DEF CntRun, CntBut
<1>5. CntFrame(d, e, K)
  <2>1. \A s \in chs : <<"counting", s>> \in K /\ <<"flag", s>> \in K
    BY DEF CntLib!Run
  <2> HIDE DEF K
  <2> QED  BY <1>1, <2>1, CntRunFrame
<1>6. \A k \in CntKeys \ K : CntStays(d, e, k)
  <2> HIDE DEF K
  <2> QED  BY <1>4, <1>5, CntKeeps
<1>7. ASSUME NEW k \in K
      PROVE  CntLib!Answers(e, k) = {CntLib!Settles(d, r)[k]}
  <2>1. PICK s \in chs : k = <<"counting", s>> \/ k = <<"flag", s>>
    BY <1>7 DEF CntLib!Run
  <2>2. CntLib!Settles(d, r)[k] = CntLib!Counting(d, r, s)
    BY <1>2, <1>7, <2>1
  <2>3. PICK v \in {0, 1} : v = 0
    OBVIOUS
  <2>4. CntLib!Counting(d, r, s) = CntGate(d, s, v)
    BY <2>3, CntCountingGate
  <2>5. CntGated(d, e, s, v)
    BY <1>1, <2>3
  <2>6. CntLib!Answers(e, <<"counting", s>>) = {CntGate(d, s, v)} /\ CntLib!Answers(e, <<"flag", s>>) = {CntGate(d, s, v)}
    BY <2>5, CntGatedAnswers
  <2>7. CntLib!Answers(e, k) = {CntGate(d, s, v)}
    BY <2>1, <2>6
  <2> QED  BY <2>2, <2>4, <2>7
<1>8. K \subseteq CntKeys /\ DOMAIN CntLib!Settles(d, r) = K
  <2>1. K \subseteq CntKeys
    BY DEF CntKeys, CntLib!Run
  <2> HIDE DEF K
  <2> QED  BY <1>2, <2>1
<1>9. CntGives(d, r, e)
  BY <1>3, <1>4, <1>6, <1>7, <1>8 DEF CntGives
<1> QED
  BY <1>9 DEF e

\* Every legal call of the counter library.
LEMMA CntStep ==
  ASSUME NEW d \in CntDev, NEW r, CntLib!Legal(d, r)
  PROVE  CntGives(d, r, CntLib!Do(d, r))
<1>1. CASE r.call = "SetOperationMode" /\ r.ch \in CntLib!Channels /\ r.val \in 1..4
  BY <1>1, CntSetMode
<1>2. CASE r.call = "SetZLogic" /\ r.ch \in CntLib!Channels /\ r.val \in {0, 1}
  BY <1>2, CntSetZLogic
<1>3. CASE r.call = "SetCountDirection" /\ r.ch \in CntLib!Channels /\ r.val \in {0, 1}
  BY <1>3, CntSetDirection
<1>4. CASE r.call = "SelectChannelSignal" /\ r.ch \in CntLib!Channels /\ r.val \in {0, 1}
  BY <1>4, CntSetSignal
<1>5. CASE r.call = "SetZMode" /\ r.ch \in CntLib!Channels /\ r.val \in 0..3
  BY <1>5, CntSetZMode
<1>6. CASE r.call = "SetDigitalFilter" /\ r.ch \in CntLib!Channels /\ CntLib!Byte(r.val)
  BY <1>6, CntSetFilter
<1>7. CASE r.call = "SetPulseWidth" /\ r.ch = 0 /\ CntLib!Byte(r.val)
  <2>1. 0 \in CntLib!Channels
    BY DEF CntLib!Channels
  <2> QED  BY <1>7, <2>1, CntSetPulse
<1>8. CASE r.call = "SET_INTERRUPT_MASK" /\ r.ch = 0 /\ CntLib!Byte(r.val)
  <2>1. r.val \in Nat
    BY <1>8 DEF CntLib!Byte
  <2> QED  BY <1>8, <2>1, CntSetRegister
<1>9. CASE r.call = "RESET_SENCE" /\ CntLib!Byte(r.val)
  <2>1. r.val \in Nat
    BY <1>9 DEF CntLib!Byte
  <2> QED  BY <1>9, <2>1, CntResetSence
<1>10. CASE r.call = "SET_TIMER_DATA" /\ r.ch = 0 /\ CntLib!Long(r.val)
  <2>1. r.val \in Nat
    BY <1>10 DEF CntLib!Long
  <2> QED  BY <1>10, <2>1, CntSetRegister
<1>11. CASE r.call = "NotifyCountUp" /\ r.ch \in CntLib!Channels /\ CntLib!Long(r.val)
  <2>1. r.val \in Nat
    BY <1>11 DEF CntLib!Long
  <2> QED  BY <1>11, <2>1, CntSetCompare
<1>12. CASE r.call = "Preset" /\ r.ch \in CntLib!Channels /\ CntLib!Long(r.val)
  <2>1. r.val \in Nat
    BY <1>12 DEF CntLib!Long
  <2> QED  BY <1>12, <2>1, CntSetPreset
<1>13. CASE r.call = "GetCountDirection" /\ r.ch \in CntLib!Channels /\ r.val \in Nat
  BY <1>13, CntGetDirection
<1>14. CASE r.call = "StartCount" /\ r.chs \subseteq CntLib!Channels
  BY <1>14, CntSetStart
<1>16. CASE r.call = "StopCount" /\ r.chs \subseteq CntLib!Channels
  BY <1>16, CntSetStop
<1>17. CASE r.call = "reset_flag_always_on"
  BY <1>17, CntSetAlways
<1>15. CASE r.call = "ReadCount" /\ r.chs \subseteq CntLib!Channels
  BY <1>15, CntSetLatch
<1> QED
  BY <1>1, <1>2, <1>3, <1>4, <1>5, <1>6, <1>7, <1>8, <1>9, <1>10, <1>11, <1>12, <1>13, <1>14, <1>15, <1>16, <1>17 DEF CntLib!Legal

\* The copy made new takes the registers as they are, and the count of what
\* was counted stays.
LEMMA CntMadeNew ==
  ASSUME NEW d, d.latched \in [CntLib!Channels -> Int], d.name \in CntLib!Names, d.reg \in [CntLib!Commands -> Int],
         d.status \in [CntLib!Channels -> Int], d.alwaysOn \in BOOLEAN, NEW e, e = CntLib!allocate_list(d)
  PROVE  /\ e \in CntDev /\ e.name = d.name /\ e.reg = d.reg /\ e.status = d.status
         /\ \A ch \in CntLib!Channels : (7 \in e.mode[ch]) <=> d.alwaysOn
<1>1. CntLib!Zeros \in [CntLib!Channels -> Int] /\ \A ch \in CntLib!Channels : CntLib!Zeros[ch] = 0
  BY DEF CntLib!Zeros
<1>2. CntLib!Long(0) /\ 0 \in CntBytes
  BY DEF CntLib!Long, CntBytes, CntLib!Byte
<1>3. CntLib!Zeros \in [CntLib!Channels -> {v \in Int : CntLib!Long(v)}] /\ CntLib!Zeros \in [CntLib!Channels -> CntBytes]
  BY <1>1, <1>2 DEF CntLib!Zeros
<1> DEFINE m == [ch \in CntLib!Channels |-> IF d.alwaysOn THEN {7} ELSE {}]
<1>4. m \in [CntLib!Channels -> SUBSET CntBits]
  BY DEF CntBits
<1>5. e = [compare |-> CntLib!Zeros, filter |-> CntLib!Zeros, input_sig |-> {}, latch |-> 0, mode |-> m,
           pulsewidth |-> 0, sence |-> 255, zPhase |-> CntLib!Zeros, alwaysOn |-> d.alwaysOn,
           latched |-> d.latched, name |-> d.name, reg |-> d.reg, status |-> d.status]
  BY DEF CntLib!allocate_list, CntLib!reset
<1>6. \A ch \in CntLib!Channels : (7 \in m[ch]) <=> d.alwaysOn
  OBVIOUS
<1> HIDE DEF m
<1> QED
  BY <1>1, <1>2, <1>3, <1>4, <1>5, <1>6 DEF CntDev

\* A reload loses the copies and no register.
LEMMA CntReloaded ==
  ASSUME NEW d \in CntDev, NEW on \in BOOLEAN, NEW e, e = CntLib!Reloaded(d, on)
  PROVE  /\ e \in CntDev /\ e.name = d.name
         /\ DOMAIN CntLib!Loads(on) \subseteq CntKeys
         /\ \A k \in DOMAIN CntLib!Loads(on) : CntLib!Answers(e, k) = {CntLib!Loads(on)[k]}
         /\ \A k \in CntKeys : k[1] \in CntLib!Kept => CntStays(d, e, k)
<1> DEFINE x == [d EXCEPT !.alwaysOn = on]
<1>0. CntBut(d, x, {"alwaysOn"}) /\ x.alwaysOn = on
  BY CntPutAlways
<1>1. e = CntLib!allocate_list(x)
  BY DEF CntLib!Reloaded
<1> HIDE DEF x
<1>2. /\ e \in CntDev /\ e.name = x.name /\ e.reg = x.reg /\ e.status = x.status
      /\ \A ch \in CntLib!Channels : (7 \in e.mode[ch]) <=> on
  <2>1. /\ x.latched \in [CntLib!Channels -> Int] /\ x.name \in CntLib!Names /\ x.reg \in [CntLib!Commands -> Int]
        /\ x.status \in [CntLib!Channels -> Int] /\ x.alwaysOn \in BOOLEAN
    BY <1>0 DEF CntBut, CntDev
  <2> QED  BY <1>0, <1>1, <2>1, CntMadeNew
<1>3. e.name = d.name /\ e.reg = d.reg /\ e.status = d.status
  BY <1>0, <1>2 DEF CntBut
<1>4. ASSUME NEW k \in CntKeys, k[1] \in CntLib!Kept
      PROVE  CntStays(d, e, k)
  <2>1. PICK c, s : k = <<c, s>>
    BY DEF CntKeys
  <2>2. c \in CntLib!Kept
    BY <1>4, <2>1
  <2>3. CntSameAt(d, e, c, s)
    BY <1>3, <2>2 DEF CntSameAt, CntLib!Kept
  <2> QED  BY <1>2, <1>3, <2>1, <2>3, CntSame
<1> DEFINE K == {<<"flag", ch>> : ch \in CntLib!Channels}
<1>5. CntLib!Loads(on) = [k \in K |-> IF on THEN 1 ELSE 0]
  BY DEF CntLib!Loads
<1>6. K \subseteq CntKeys
  BY DEF CntKeys
<1>7. ASSUME NEW k \in K
      PROVE  CntLib!Answers(e, k) = {CntLib!Loads(on)[k]}
  <2>1. PICK ch \in CntLib!Channels : k = <<"flag", ch>>
    BY <1>7
  <2>2. CntLib!Loads(on)[k] = IF on THEN 1 ELSE 0
    BY <1>5, <1>7
  <2> QED  BY <1>2, <2>1, <2>2, CntFlagIs
<1> HIDE DEF K
<1> QED
  BY <1>2, <1>3, <1>4, <1>5, <1>6, <1>7

\* What a program is told of the product when it starts.
LEMMA CntBoot ==
  ASSUME NEW n \in CntLib!Names, NEW d, d = CntLib!Boot(n)
  PROVE  /\ d \in CntDev /\ d.name = n
         /\ DOMAIN CntLib!Facts(d) \subseteq CntKeys
         /\ \A k \in DOMAIN CntLib!Facts(d) : CntLib!Answers(d, k) = {CntLib!Facts(d)[k]}
<1> DEFINE r == [alwaysOn |-> FALSE, latched |-> CntLib!Zeros, name |-> n, reg |-> [c \in CntLib!Commands |-> 0],
                 status |-> [ch \in CntLib!Channels |-> 1 + ch]]
<1>1. d = CntLib!allocate_list(r)
  BY DEF CntLib!Boot
<1>2. r.latched \in [CntLib!Channels -> Int] /\ r.name = n /\ r.reg \in [CntLib!Commands -> Int] /\ r.status \in [CntLib!Channels -> Int]
      /\ r.alwaysOn \in BOOLEAN
  BY DEF CntLib!Zeros, CntLib!Channels
<1> HIDE DEF r
<1>3. d \in CntDev /\ d.name = n
  BY <1>1, <1>2, CntMadeNew
<1>4. PICK K : K = {<<"status", ch>> : ch \in CntLib!Channels} \cup {<<"channels", 0>>, <<"name", 0>>}
  OBVIOUS
<1>5. DOMAIN CntLib!Facts(d) = K
  BY <1>4 DEF CntLib!Facts
<1>6. K \subseteq CntKeys
  BY <1>4 DEF CntKeys
<1>7. \E p \in CntLib!cps_cnt_data : p.Name = n
  BY DEF CntLib!Names
<1>8. ASSUME NEW k \in K
      PROVE  CntLib!Answers(d, k) = {CntLib!Facts(d)[k]}
  <2>1. CntLib!Facts(d)[k] = CASE k[1] = "status" -> <<d.status[k[2]], d.status[k[2]] % 2>>
                               [] k[1] = "channels" -> 2
                               [] k[1] = "name" -> d.name
    BY <1>4, <1>8 DEF CntLib!Facts
  <2>2. CASE \E ch \in CntLib!Channels : k = <<"status", ch>>
    BY <2>1, <2>2, CntStatusIs
  <2>3. CASE k = <<"channels", 0>>
    <3>1. CntLib!Answers(d, k) = {CntLib!GetMaxChannels(d)}
      BY <2>3 DEF CntLib!Answers
    <3>2. CntLib!GetMaxChannels(d) = 2
      BY <1>3, <1>7 DEF CntLib!GetMaxChannels, CntLib!GetIoctl, CntLib!cps_cnt_data
    <3> QED  BY <2>1, <2>3, <3>1, <3>2
  <2>4. CASE k = <<"name", 0>>
    <3>1. CntLib!Answers(d, k) = {CntLib!get_cnt_devname(d)}
      BY <2>4 DEF CntLib!Answers
    <3>2. CntLib!get_cnt_devname(d) = d.name
      BY <1>3, <1>7 DEF CntLib!get_cnt_devname
    <3> QED  BY <2>1, <2>4, <3>1, <3>2
  <2> QED  BY <1>4, <2>2, <2>3, <2>4
<1> QED
  BY <1>3, <1>5, <1>6, <1>8

-----------------------------------------------------------------------------
(* The library of ssi. *)

\* States of an ssi device, and the keys its answers go by.
SsiByte == {n \in Int : 0 <= n /\ n < 256}
\* Raw temperatures that no offset takes past the range.
SsiRaw == {n \in Int : /\ 0 <= n /\ n < 16777216
                       /\ -8380000 < SsiLib!Temperature(n) /\ SsiLib!Temperature(n) < 8380000}
SsiData == [last : Int, std : Int, wire : Int]
SsiDatas == [SsiLib!Channels -> SsiData]
SsiOffs == [SsiLib!Channels -> [SsiLib!Wires -> SsiByte]]
SsiSent == Int \cup {"read", "write"}
SsiPorts == [{"address", "data", "rw"} -> SsiSent]
SsiRaws == [SsiLib!Channels -> SsiRaw]
SsiRegs == [SsiLib!Addresses -> Int]
SsiRoms == [0..4 -> Int]
SsiDev == [data : SsiDatas, name : SsiLib!Names, off : SsiOffs, port : SsiPorts, raw : SsiRaws, reg : SsiRegs, rom : SsiRoms]
SsiKeys == ({"channels", "name", "Gain", "WriteGain"} \X {0})
             \cup ({"SetChannel", "w3", "w4", "WriteOffset", "last", "byte"} \X SsiLib!Channels)

\* What a step leaves of a device: all but the fields of F.
SsiBut(d, e, F) ==
  /\ e \in SsiDev /\ e.name = d.name /\ e.raw = d.raw
  /\ "data" \in F \/ e.data = d.data
  /\ "off" \in F \/ e.off = d.off
  /\ "reg" \in F \/ e.reg = d.reg
  /\ "rom" \in F \/ e.rom = d.rom

\* One field at a time.
LEMMA SsiPutData ==
  ASSUME NEW d \in SsiDev, NEW f \in SsiDatas, NEW e, e = [d EXCEPT !.data = f]
  PROVE  SsiBut(d, e, {"data"}) /\ e.data = f
BY SMT DEF SsiDev, SsiBut
LEMMA SsiPutOff ==
  ASSUME NEW d \in SsiDev, NEW f \in SsiOffs, NEW e, e = [d EXCEPT !.off = f]
  PROVE  SsiBut(d, e, {"off"}) /\ e.off = f
BY SMT DEF SsiDev, SsiBut
LEMMA SsiPutReg ==
  ASSUME NEW d \in SsiDev, NEW f \in SsiRegs, NEW e, e = [d EXCEPT !.reg = f]
  PROVE  SsiBut(d, e, {"reg"}) /\ e.reg = f
BY SMT DEF SsiDev, SsiBut
LEMMA SsiPutRom ==
  ASSUME NEW d \in SsiDev, NEW f \in SsiRoms, NEW e, e = [d EXCEPT !.rom = f]
  PROVE  SsiBut(d, e, {"rom"}) /\ e.rom = f
BY SMT DEF SsiDev, SsiBut
LEMMA SsiPutPort ==
  ASSUME NEW d \in SsiDev, NEW f \in SsiPorts, NEW e, e = [d EXCEPT !.port = f]
  PROVE  SsiBut(d, e, {}) /\ e.port = f
BY SMT DEF SsiDev, SsiBut

LEMMA SsiCommand ==
  ASSUME NEW d \in SsiDev, NEW w \in {"address", "data", "rw"}, NEW v \in SsiSent, NEW e, e = SsiLib!command(d, w, v)
  PROVE  /\ SsiBut(d, e, {}) /\ e.port[w] = v
         /\ w # "address" => e.port["address"] = d.port["address"]
         /\ w # "data" => e.port["data"] = d.port["data"]
<1> DEFINE f == [d.port EXCEPT ![w] = v]
<1>1. e = [d EXCEPT !.port = f]
  BY DEF SsiLib!command
<1>a. d.port \in SsiPorts
  BY DEF SsiDev
<1>2. f \in SsiPorts /\ f[w] = v /\ \A x \in {"address", "data", "rw"} : x # w => f[x] = d.port[x]
  BY <1>a DEF SsiPorts
<1> HIDE DEF f
<1> QED
  BY <1>1, <1>2, SsiPutPort

LEMMA SsiDirection ==
  ASSUME NEW d \in SsiDev, NEW v \in {"read", "write"}, NEW e, e = SsiLib!command(d, "rw", v)
  PROVE  SsiBut(d, e, {}) /\ e.port["rw"] = v /\ e.port["address"] = d.port["address"] /\ e.port["data"] = d.port["data"]
<1>1. PICK w : w = "rw"
  OBVIOUS
<1>2. w \in {"address", "data", "rw"} /\ w # "address" /\ w # "data" /\ v \in SsiSent /\ e = SsiLib!command(d, w, v)
  BY <1>1 DEF SsiSent
<1>3. SsiBut(d, e, {}) /\ e.port[w] = v /\ e.port["address"] = d.port["address"] /\ e.port["data"] = d.port["data"]
  BY <1>2, SsiCommand
<1> QED
  BY <1>1, <1>3

LEMMA SsiPutByte ==
  ASSUME NEW f \in SsiRegs, NEW at \in SsiLib!Addresses, NEW v \in Int, NEW g, g = [f EXCEPT ![at] = v]
  PROVE  g \in SsiRegs /\ g[at] = v /\ \A a \in SsiLib!Addresses : a # at => g[a] = f[a]
BY DEF SsiRegs

\* The words of the converter: their addresses are apart.
LEMMA SsiWords ==
  /\ \A a \in SsiLib!Words : a \in {32, 44, 60, 72, 528, 540, 556, 568, 520}
  /\ \A a \in SsiLib!Words, i \in 0..3 : a + i \in SsiLib!Addresses
  /\ \A ch \in SsiLib!Channels : /\ SsiLib!TEMP_CHANNEL[ch + 1] \in SsiLib!Words /\ SsiLib!CHANNEL_DATA[ch + 1] \in SsiLib!Words
                                 /\ SsiLib!TEMP_CHANNEL[ch + 1] < 100 /\ SsiLib!CHANNEL_DATA[ch + 1] > 524
                                 /\ ch \in Int /\ 0 <= ch /\ ch <= 3
  /\ \A s, t \in SsiLib!Channels : s # t => SsiLib!CHANNEL_DATA[s + 1] # SsiLib!CHANNEL_DATA[t + 1]
  /\ 520 \in SsiLib!Words
  /\ 0 \in SsiLib!Addresses
  /\ \A a \in SsiLib!Addresses : a \in Int
<1>1. /\ SsiLib!TEMP_CHANNEL[1] = 32 /\ SsiLib!TEMP_CHANNEL[2] = 44 /\ SsiLib!TEMP_CHANNEL[3] = 60 /\ SsiLib!TEMP_CHANNEL[4] = 72
      /\ SsiLib!CHANNEL_DATA[1] = 528 /\ SsiLib!CHANNEL_DATA[2] = 540 /\ SsiLib!CHANNEL_DATA[3] = 556 /\ SsiLib!CHANNEL_DATA[4] = 568
  BY DEF SsiLib!TEMP_CHANNEL, SsiLib!CHANNEL_DATA
<1>2. \A i \in 1..4 : i = 1 \/ i = 2 \/ i = 3 \/ i = 4
  OBVIOUS
<1>3. SsiLib!Words = {SsiLib!TEMP_CHANNEL[i] : i \in 1..4} \cup {SsiLib!CHANNEL_DATA[i] : i \in 1..4} \cup {520}
  BY DEF SsiLib!Words, SsiLib!SENSE_RESISTANCE
<1>4. \A a \in SsiLib!Words : a \in {32, 44, 60, 72, 528, 540, 556, 568, 520}
  BY <1>1, <1>2, <1>3
<1>5. \A ch \in SsiLib!Channels : ch = 0 \/ ch = 1 \/ ch = 2 \/ ch = 3
  BY DEF SsiLib!Channels
<1>6. \A ch \in SsiLib!Channels : ch + 1 \in 1..4
  BY <1>5
<1>7. \A ch \in SsiLib!Channels : SsiLib!TEMP_CHANNEL[ch + 1] \in SsiLib!Words /\ SsiLib!CHANNEL_DATA[ch + 1] \in SsiLib!Words
  BY <1>3, <1>6
<1>8. \A ch \in SsiLib!Channels : SsiLib!TEMP_CHANNEL[ch + 1] < 100 /\ SsiLib!CHANNEL_DATA[ch + 1] > 524 /\ ch \in Int /\ 0 <= ch /\ ch <= 3
  BY <1>1, <1>5
<1>9. \A s, t \in SsiLib!Channels : s # t => SsiLib!CHANNEL_DATA[s + 1] # SsiLib!CHANNEL_DATA[t + 1]
  BY <1>1, <1>5
<1>10. SsiLib!Addresses = {0} \cup UNION {{a, a + 1, a + 2, a + 3} : a \in SsiLib!Words}
  BY DEF SsiLib!Addresses, SsiLib!STATUS
<1>11. \A a \in SsiLib!Words, i \in 0..3 : a + i \in SsiLib!Addresses
  <2> TAKE a \in SsiLib!Words, i \in 0..3
  <2>1. a + i \in {a, a + 1, a + 2, a + 3}
    BY <1>4
  <2> QED  BY <1>10, <2>1
<1>12. \A a \in SsiLib!Addresses : a \in Int
  BY <1>4, <1>10
<1> QED
  BY <1>3, <1>4, <1>7, <1>8, <1>9, <1>10, <1>11, <1>12

\* A word at an address.
SsiWord(d, at) == <<d.reg[at], (d.reg[at + 1] * 256 + d.reg[at + 2]) * 256 + d.reg[at + 3]>>

\* Four bytes are written, the others stay.
LEMMA SsiWritten ==
  ASSUME NEW reg \in SsiRegs, NEW at \in SsiLib!Words, NEW h \in Int, NEW l \in Int, NEW f, f = SsiLib!Written(reg, at, <<h, l>>)
  PROVE  /\ f \in SsiRegs
         /\ f[at] = h /\ f[at + 1] = l \div 65536 /\ f[at + 2] = (l \div 256) % 256 /\ f[at + 3] = l % 256
         /\ \A a \in SsiLib!Addresses : (a < at \/ a > at + 3) => f[a] = reg[a]
<1> DEFINE B == SsiLib!BytesOf(<<h, l>>)
           b == l \div 65536
           c == (l \div 256) % 256
           g == l % 256
<1>1. B[1] = h /\ B[2] = b /\ B[3] = c /\ B[4] = g
  BY DEF SsiLib!BytesOf
<1>2. b \in Int /\ c \in Int /\ g \in Int
  OBVIOUS
<1>3. f = [a \in SsiLib!Addresses |-> IF at <= a /\ a < at + 4 THEN B[(a - at) + 1] ELSE reg[a]]
  BY DEF SsiLib!Written
<1> HIDE DEF B, b, c, g
<1>4. at \in Int /\ at \in SsiLib!Addresses /\ at + 1 \in SsiLib!Addresses /\ at + 2 \in SsiLib!Addresses /\ at + 3 \in SsiLib!Addresses
  <2>1. at + 0 \in SsiLib!Addresses /\ at + 1 \in SsiLib!Addresses /\ at + 2 \in SsiLib!Addresses /\ at + 3 \in SsiLib!Addresses
    BY SsiWords
  <2>2. at \in Int
    BY SsiWords
  <2> QED  BY <2>1, <2>2
<1>5. (at - at) + 1 = 1 /\ ((at + 1) - at) + 1 = 2 /\ ((at + 2) - at) + 1 = 3 /\ ((at + 3) - at) + 1 = 4
  BY <1>4
<1>6. f[at] = B[1] /\ f[at + 1] = B[2] /\ f[at + 2] = B[3] /\ f[at + 3] = B[4]
  BY <1>3, <1>4, <1>5
<1>7. \A a \in SsiLib!Addresses : (a < at \/ a > at + 3) => f[a] = reg[a]
  BY <1>3, <1>4, SsiWords DEF SsiRegs
<1>8. \A a \in SsiLib!Addresses : f[a] \in Int
  <2> TAKE a \in SsiLib!Addresses
  <2>1. a \in Int
    BY SsiWords
  <2>2. a = at \/ a = at + 1 \/ a = at + 2 \/ a = at + 3 \/ a < at \/ a > at + 3
    BY <1>4, <2>1
  <2> QED  BY <1>1, <1>2, <1>6, <1>7, <2>2 DEF SsiRegs
<1>9. f \in SsiRegs
  BY <1>3, <1>8 DEF SsiRegs
<1> QED
  BY <1>1, <1>6, <1>7, <1>9 DEF b, c, g

\* A word split into bytes and joined is the word.
LEMMA SsiJoin ==
  ASSUME NEW l \in Int
  PROVE  ((l \div 65536) * 256 + ((l \div 256) % 256)) * 256 + (l % 256) = l
<1> DEFINE m == l \div 256
<1>1. m \in Int /\ l \div 65536 = m \div 256 /\ l = (256 * m) + (l % 256)
  OBVIOUS
<1> HIDE DEF m
<1>2. m = (256 * (m \div 256)) + (m % 256)
  BY <1>1
<1>3. PICK p, q, t : p = m \div 256 /\ q = m % 256 /\ t = l % 256 /\ p \in Int /\ q \in Int /\ t \in Int
  BY <1>1
<1>4. (p * 256 + q) * 256 + t = l
  BY <1>1, <1>2, <1>3
<1> QED
  BY <1>1, <1>3, <1>4 DEF m

\* One transaction of the FPGA with the converter.
LEMMA SsiAddressed ==
  ASSUME NEW d \in SsiDev, NEW at \in SsiLib!Addresses, NEW v \in Int,
         NEW e, e = SsiLib!command(SsiLib!command(SsiLib!command(d, "address", at), "data", v), "rw", "write")
  PROVE  SsiBut(d, e, {}) /\ e.port["address"] = at /\ e.port["data"] = v /\ e.port["rw"] = "write"
<1> DEFINE x == SsiLib!command(d, "address", at)
           y == SsiLib!command(x, "data", v)
<1>1. e = SsiLib!command(y, "rw", "write")
  OBVIOUS
<1>2. at \in SsiSent /\ v \in SsiSent
  BY SsiWords DEF SsiSent
<1>3. SsiBut(d, x, {}) /\ x.port["address"] = at
  BY <1>2, SsiCommand
<1> HIDE DEF x
<1>4. x \in SsiDev
  BY <1>3 DEF SsiBut
<1>5. SsiBut(x, y, {}) /\ y.port["data"] = v /\ y.port["address"] = x.port["address"]
  BY <1>2, <1>4, SsiCommand
<1> HIDE DEF y
<1>6. y \in SsiDev
  BY <1>5 DEF SsiBut
<1>7. SsiBut(y, e, {}) /\ e.port["rw"] = "write" /\ e.port["address"] = y.port["address"] /\ e.port["data"] = y.port["data"]
  BY <1>1, <1>6, SsiDirection
<1>8. SsiBut(d, e, {})
  BY <1>3, <1>5, <1>7 DEF SsiBut
<1> QED
  BY <1>3, <1>5, <1>7, <1>8

\* A byte written through the three registers, and one read.
LEMMA SsiWriteByte ==
  ASSUME NEW d \in SsiDev, NEW at \in SsiLib!Addresses, at # 0, NEW v \in Int, NEW e, e = SsiLib!command_4p_write(d, at, v)
  PROVE  SsiBut(d, e, {"reg"}) /\ e.reg = [d.reg EXCEPT ![at] = v]
<1> DEFINE x == SsiLib!command(SsiLib!command(SsiLib!command(d, "address", at), "data", v), "rw", "write")
           f == [x.reg EXCEPT ![at] = v]
<1>1. e = SsiLib!Transacted(x)
  BY DEF SsiLib!command_4p_write
<1>2. SsiBut(d, x, {}) /\ x.port["address"] = at /\ x.port["data"] = v /\ x.port["rw"] = "write"
  BY SsiAddressed
<1> HIDE DEF x
<1>3. e = [x EXCEPT !.reg[at] = v]
  BY <1>1, <1>2 DEF SsiLib!Transacted, SsiLib!STATUS
<1>4. x \in SsiDev /\ x.reg \in SsiRegs
  BY <1>2 DEF SsiBut, SsiDev
<1>5. f \in SsiRegs
  BY <1>4 DEF SsiRegs
<1>6. e = [x EXCEPT !.reg = f]
  BY <1>3
<1> HIDE DEF f
<1>7. SsiBut(x, e, {"reg"}) /\ e.reg = f
  BY <1>4, <1>5, <1>6, SsiPutReg
<1>8. SsiBut(d, e, {"reg"}) /\ x.reg = d.reg
  BY <1>2, <1>7 DEF SsiBut
<1> QED
  BY <1>7, <1>8 DEF f

LEMMA SsiReadByte ==
  ASSUME NEW d \in SsiDev, NEW at \in SsiLib!Addresses
  PROVE  SsiLib!command_4p_read(d, at) = d.reg[at]
<1> DEFINE x == SsiLib!command(d, "address", at)
           y == SsiLib!command(x, "rw", "read")
           z == [y EXCEPT !.port["data"] = y.reg[at]]
           f == [y.port EXCEPT !["data"] = y.reg[at]]
<1>1. SsiLib!command_4p_read(d, at) = SsiLib!Transacted(y).port["data"]
  BY DEF SsiLib!command_4p_read
<1>2. at \in SsiSent
  BY SsiWords DEF SsiSent
<1>3. SsiBut(d, x, {}) /\ x.port["address"] = at
  BY <1>2, SsiCommand
<1> HIDE DEF x
<1>4. x \in SsiDev
  BY <1>3 DEF SsiBut
<1>5. SsiBut(x, y, {}) /\ y.port["rw"] = "read" /\ y.port["address"] = at
  BY <1>3, <1>4, SsiDirection
<1> HIDE DEF y
<1>6. SsiLib!Transacted(y) = z
  BY <1>5 DEF SsiLib!Transacted
<1>7. y \in SsiDev /\ y.reg = d.reg
  BY <1>3, <1>5 DEF SsiBut
<1>8. y.reg[at] \in Int /\ y.port \in SsiPorts
  BY <1>7 DEF SsiDev, SsiRegs
<1>9. f \in SsiPorts /\ f["data"] = y.reg[at]
  BY <1>8 DEF SsiPorts, SsiSent
<1>10. z = [y EXCEPT !.port = f]
  OBVIOUS
<1> HIDE DEF f, z
<1>11. z.port = f
  BY <1>7, <1>9, <1>10, SsiPutPort
<1> QED
  BY <1>1, <1>6, <1>7, <1>9, <1>11

LEMMA SsiReadWord ==
  ASSUME NEW d \in SsiDev, NEW at \in SsiLib!Words
  PROVE  SsiLib!read_word(d, at) = SsiWord(d, at)
<1> DEFINE B == [i \in 1..4 |-> SsiLib!command_4p_read(d, (at + i) - 1)]
<1>1. at \in Int
  BY SsiWords
<1>2. at + 0 \in SsiLib!Addresses /\ at + 1 \in SsiLib!Addresses /\ at + 2 \in SsiLib!Addresses /\ at + 3 \in SsiLib!Addresses
  BY SsiWords
<1>3. (at + 1) - 1 = at /\ (at + 2) - 1 = at + 1 /\ (at + 3) - 1 = at + 2 /\ (at + 4) - 1 = at + 3 /\ at + 0 = at
  BY <1>1
<1>4. B[1] = SsiLib!command_4p_read(d, at) /\ B[2] = SsiLib!command_4p_read(d, at + 1)
      /\ B[3] = SsiLib!command_4p_read(d, at + 2) /\ B[4] = SsiLib!command_4p_read(d, at + 3)
  BY <1>3
<1>5. SsiLib!read_word(d, at) = SsiLib!WordOf(B)
  BY DEF SsiLib!read_word
<1> HIDE DEF B
<1>6. B[1] = d.reg[at] /\ B[2] = d.reg[at + 1] /\ B[3] = d.reg[at + 2] /\ B[4] = d.reg[at + 3]
  BY <1>2, <1>3, <1>4, SsiReadByte
<1> QED
  BY <1>5, <1>6 DEF SsiLib!WordOf, SsiWord

\* What a write of a word leaves of the bytes.
SsiWrote(d, e, at, w) ==
  /\ SsiBut(d, e, {"reg"}) /\ SsiWord(e, at) = w
  /\ \A a \in SsiLib!Addresses : (a < at \/ a > at + 3) => e.reg[a] = d.reg[a]

LEMMA SsiWriteWord ==
  ASSUME NEW d \in SsiDev, NEW at \in SsiLib!Words, NEW h \in Int, NEW l \in Int, NEW e, e = SsiLib!write_word(d, at, <<h, l>>)
  PROVE  SsiWrote(d, e, at, <<h, l>>)
<1> DEFINE f == SsiLib!Written(d.reg, at, <<h, l>>)
           x == [d EXCEPT !.reg = f]
<1>0. d.reg \in SsiRegs
  BY DEF SsiDev
<1>1. /\ f \in SsiRegs
      /\ f[at] = h /\ f[at + 1] = l \div 65536 /\ f[at + 2] = (l \div 256) % 256 /\ f[at + 3] = l % 256
      /\ \A a \in SsiLib!Addresses : (a < at \/ a > at + 3) => f[a] = d.reg[a]
  BY <1>0, SsiWritten
<1>2. e = SsiLib!command_4p_write(x, at + 3, l % 256)
  BY DEF SsiLib!write_word, SsiLib!BytesOf
<1> HIDE DEF f
<1>3. SsiBut(d, x, {"reg"}) /\ x.reg = f
  BY <1>1, SsiPutReg
<1> HIDE DEF x
<1>4. x \in SsiDev /\ l % 256 \in Int
  BY <1>3 DEF SsiBut
<1>5. at + 3 \in SsiLib!Addresses /\ at + 3 # 0 /\ at \in Int
  BY SsiWords
<1>6. SsiBut(x, e, {"reg"}) /\ e.reg = [x.reg EXCEPT ![at + 3] = l % 256]
  BY <1>2, <1>4, <1>5, SsiWriteByte
<1>7. \A a \in SsiLib!Addresses : e.reg[a] = f[a]
  <2>1. PICK w : w = l % 256
    OBVIOUS
  <2>2. f \in SsiRegs /\ f[at + 3] = w /\ e.reg = [f EXCEPT ![at + 3] = w]
    BY <1>1, <1>3, <1>6, <2>1
  <2>3. \A a \in SsiLib!Addresses : a # at + 3 => e.reg[a] = f[a]
    BY <2>2 DEF SsiRegs
  <2>4. e.reg[at + 3] = w
    BY <1>5, <2>2 DEF SsiRegs
  <2> QED  BY <2>2, <2>3, <2>4
<1>8. at + 0 \in SsiLib!Addresses /\ at + 1 \in SsiLib!Addresses /\ at + 2 \in SsiLib!Addresses
  BY SsiWords
<1>9. at + 0 = at
  BY <1>5
<1>10. e.reg[at] = h /\ e.reg[at + 1] = l \div 65536 /\ e.reg[at + 2] = (l \div 256) % 256 /\ e.reg[at + 3] = l % 256
  BY <1>1, <1>5, <1>7, <1>8, <1>9
<1>11. SsiWord(e, at) = <<h, ((l \div 65536) * 256 + ((l \div 256) % 256)) * 256 + (l % 256)>>
  BY <1>10 DEF SsiWord
<1>12. SsiWord(e, at) = <<h, l>>
  BY <1>11, SsiJoin
<1>13. SsiBut(d, e, {"reg"})
  BY <1>3, <1>6 DEF SsiBut
<1>14. \A a \in SsiLib!Addresses : (a < at \/ a > at + 3) => e.reg[a] = d.reg[a]
  BY <1>1, <1>7
<1> QED
  BY <1>12, <1>13, <1>14 DEF SsiWrote

\* Other words and the bytes of the resistor's word stay.
LEMMA SsiOtherWord ==
  ASSUME NEW d, NEW at \in SsiLib!Words, NEW w, NEW e, SsiWrote(d, e, at, w), NEW b \in SsiLib!Words, b # at
  PROVE  SsiWord(e, b) = SsiWord(d, b)
<1>1. b < at - 3 \/ b > at + 3
  BY SsiWords
<1>2. at \in Int /\ b \in Int
  BY SsiWords
<1>3. b + 0 \in SsiLib!Addresses /\ b + 1 \in SsiLib!Addresses /\ b + 2 \in SsiLib!Addresses /\ b + 3 \in SsiLib!Addresses /\ b + 0 = b
  BY <1>2, SsiWords
<1>4. e.reg[b] = d.reg[b] /\ e.reg[b + 1] = d.reg[b + 1] /\ e.reg[b + 2] = d.reg[b + 2] /\ e.reg[b + 3] = d.reg[b + 3]
  BY <1>1, <1>2, <1>3 DEF SsiWrote
<1> QED
  BY <1>4 DEF SsiWord

\* A conversion leaves its temperature.
LEMMA SsiStarted ==
  ASSUME NEW d \in SsiDev, NEW ch \in SsiLib!Channels, NEW e, e = SsiLib!Start(d, ch)
  PROVE  /\ SsiBut(d, e, {"reg"}) /\ SsiWord(e, SsiLib!TEMP_CHANNEL[ch + 1]) = <<1, d.raw[ch]>>
         /\ \A a \in SsiLib!Addresses : a > 500 => e.reg[a] = d.reg[a]
<1> DEFINE v == SsiLib!START_CHANNEL[ch + 1]
           x == SsiLib!command(SsiLib!command(SsiLib!command(d, "address", 0), "data", v), "rw", "write")
           at == SsiLib!TEMP_CHANNEL[ch + 1]
           f == SsiLib!Written(x.reg, at, <<1, x.raw[ch]>>)
           g == [f EXCEPT ![0] = 64]
<1>0. ch = 0 \/ ch = 1 \/ ch = 2 \/ ch = 3
  BY DEF SsiLib!Channels
<1>1. v \in Int /\ (CHOOSE i \in 1..4 : SsiLib!START_CHANNEL[i] = v) - 1 = ch
  <2>1. SsiLib!START_CHANNEL[1] = 133 /\ SsiLib!START_CHANNEL[2] = 136 /\ SsiLib!START_CHANNEL[3] = 140 /\ SsiLib!START_CHANNEL[4] = 143
    BY DEF SsiLib!START_CHANNEL
  <2>2. ch + 1 \in 1..4
    BY <1>0
  <2>3. \A i \in 1..4 : (SsiLib!START_CHANNEL[i] = v) <=> (i = ch + 1)
    <3>1. \A i \in 1..4 : i = 1 \/ i = 2 \/ i = 3 \/ i = 4
      OBVIOUS
    <3> QED  BY <1>0, <2>1, <3>1
  <2>4. (CHOOSE i \in 1..4 : SsiLib!START_CHANNEL[i] = v) = ch + 1
    BY <2>2, <2>3
  <2>5. ch \in Int /\ v \in Int
    BY <1>0, <2>1
  <2> DEFINE n == CHOOSE i \in 1..4 : SsiLib!START_CHANNEL[i] = v
  <2>6. n = ch + 1
    BY <2>4
  <2> HIDE DEF n, v
  <2>7. n - 1 = ch
    BY <2>5, <2>6
  <2> QED  BY <2>5, <2>7 DEF n
<1>2. e = SsiLib!Transacted(x)
  BY DEF SsiLib!Start, SsiLib!set_start, SsiLib!command_4p_write, SsiLib!STATUS
<1> HIDE DEF v
<1>3. SsiBut(d, x, {}) /\ x.port["address"] = 0 /\ x.port["data"] = v /\ x.port["rw"] = "write"
  BY <1>1, SsiWords, SsiAddressed
<1> HIDE DEF x
<1>4. x \in SsiDev /\ x.reg = d.reg /\ x.raw = d.raw
  BY <1>3 DEF SsiBut
<1>5. SsiLib!Transacted(x) = SsiLib!Converted(x, ch)
  BY <1>1, <1>3 DEF SsiLib!Transacted, SsiLib!STATUS
<1>6. e = [x EXCEPT !.reg = g]
  BY <1>2, <1>5 DEF SsiLib!Converted, SsiLib!STATUS
<1>7. at \in SsiLib!Words /\ x.raw[ch] \in Int /\ 1 \in Int /\ x.reg \in SsiRegs
  BY <1>4, SsiWords DEF SsiDev, SsiRaws, SsiRaw
<1>8. at < 100 /\ at \in Int /\ at > 0
  BY <1>7, SsiWords
<1> HIDE DEF at
<1>9. /\ f \in SsiRegs
      /\ f[at] = 1 /\ f[at + 1] = x.raw[ch] \div 65536 /\ f[at + 2] = (x.raw[ch] \div 256) % 256 /\ f[at + 3] = x.raw[ch] % 256
      /\ \A a \in SsiLib!Addresses : (a < at \/ a > at + 3) => f[a] = x.reg[a]
  BY <1>7, SsiWritten
<1> HIDE DEF f
<1>10. g \in SsiRegs /\ \A a \in SsiLib!Addresses : a # 0 => g[a] = f[a]
  <2>1. f \in SsiRegs
    BY <1>9
  <2>2. 0 \in SsiLib!Addresses /\ 64 \in Int
    BY SsiWords
  <2> QED  BY <2>1, <2>2, SsiPutByte
<1> HIDE DEF g
<1>11. SsiBut(x, e, {"reg"}) /\ e.reg = g
  BY <1>4, <1>6, <1>10, SsiPutReg
<1>12. at + 0 \in SsiLib!Addresses /\ at + 1 \in SsiLib!Addresses /\ at + 2 \in SsiLib!Addresses /\ at + 3 \in SsiLib!Addresses /\ at + 0 = at
  BY <1>7, <1>8, SsiWords
<1>13. e.reg[at] = f[at] /\ e.reg[at + 1] = f[at + 1] /\ e.reg[at + 2] = f[at + 2] /\ e.reg[at + 3] = f[at + 3]
  BY <1>8, <1>10, <1>11, <1>12
<1>14. PICK l : l = x.raw[ch]
  OBVIOUS
<1>15. SsiWord(e, at) = <<1, ((l \div 65536) * 256 + ((l \div 256) % 256)) * 256 + (l % 256)>>
  BY <1>9, <1>13, <1>14 DEF SsiWord
<1>16. SsiWord(e, at) = <<1, d.raw[ch]>>
  BY <1>4, <1>7, <1>14, <1>15, SsiJoin
<1>17. \A a \in SsiLib!Addresses : a > 500 => e.reg[a] = d.reg[a]
  <2> SUFFICES ASSUME NEW a \in SsiLib!Addresses, a > 500
               PROVE  e.reg[a] = d.reg[a]
    OBVIOUS
  <2>1. a \in Int
    BY SsiWords
  <2>2. a # 0 /\ a > at + 3
    BY <1>8, <2>1
  <2> QED  BY <1>4, <1>9, <1>10, <1>11, <2>2
<1>18. SsiBut(d, e, {"reg"})
  BY <1>3, <1>11 DEF SsiBut
<1> QED
  BY <1>16, <1>17, <1>18 DEF at

\* A wiring and a standard come back from the word they are written in.
LEMMA SsiRtd ==
  ASSUME NEW w \in SsiLib!Wires, NEW j \in {"PT", "JPT"}, NEW word, word = SsiLib!SET_RTD(SsiLib!WireMode(w), SsiLib!Standard(j))
  PROVE  /\ \E n \in Int : word = <<96, n>>
         /\ SsiLib!GET_RTD_WIRE_MODE(word) \in Int /\ SsiLib!OffsetOf(SsiLib!GET_RTD_WIRE_MODE(word)) = w
         /\ SsiLib!GET_RTD_STANDARD(word) \in Int /\ (IF SsiLib!GET_RTD_STANDARD(word) = 2 THEN "JPT" ELSE "PT") = j
<1> DEFINE m == SsiLib!WireMode(w)
           t == SsiLib!Standard(j)
           n == 12582912 + m * 262144 + 98304 + t * 4096
<1>1. word = <<96, n>>
  BY DEF SsiLib!SET_RTD
<1>2. (w = "w3" /\ m = 5) \/ (w = "w4" /\ m = 13)
  BY DEF SsiLib!WireMode, SsiLib!WIRE_3, SsiLib!WIRE_4, SsiLib!Wires
<1>3. (j = "PT" /\ t = 0) \/ (j = "JPT" /\ t = 2)
  BY DEF SsiLib!Standard, SsiLib!STANDARD_JP, SsiLib!STANDARD_EU
<1> HIDE DEF m, t
<1>4. n \in Int /\ (n \div 262144) % 16 = m /\ (n \div 4096) % 4 = t
  BY <1>2, <1>3
<1> HIDE DEF n
<1>5. SsiLib!GET_RTD_WIRE_MODE(word) = m /\ SsiLib!GET_RTD_STANDARD(word) = t
  BY <1>1, <1>4 DEF SsiLib!GET_RTD_WIRE_MODE, SsiLib!GET_RTD_STANDARD
<1>6. SsiLib!OffsetOf(m) = w
  BY <1>2 DEF SsiLib!OffsetOf, SsiLib!WIRE_3
<1> QED
  BY <1>1, <1>2, <1>3, <1>4, <1>5, <1>6

\* The channel's wiring and standard are in its word.
LEMMA SsiWireIs ==
  ASSUME NEW d \in SsiDev, NEW s \in SsiLib!Channels
  PROVE  SsiLib!GetWire(d, s) = SsiLib!OffsetOf(SsiLib!GET_RTD_WIRE_MODE(SsiWord(d, SsiLib!CHANNEL_DATA[s + 1])))
BY SsiReadWord, SsiWords DEF SsiLib!GetWire, SsiLib!get_channel
LEMMA SsiJptIs ==
  ASSUME NEW d \in SsiDev, NEW s \in SsiLib!Channels
  PROVE  SsiLib!GetJpt(d, s) = IF SsiLib!GET_RTD_STANDARD(SsiWord(d, SsiLib!CHANNEL_DATA[s + 1])) = 2 THEN "JPT" ELSE "PT"
BY SsiReadWord, SsiWords DEF SsiLib!GetJpt, SsiLib!get_channel, SsiLib!STANDARD_JP

LEMMA SsiModeIs ==
  ASSUME NEW d \in SsiDev, NEW s \in SsiLib!Channels
  PROVE  SsiLib!GetWire(d, s) \in SsiLib!Wires /\ SsiLib!GetJpt(d, s) \in {"PT", "JPT"}
BY SsiWireIs, SsiJptIs DEF SsiLib!OffsetOf, SsiLib!Wires

\* What choosing a wiring leaves.
SsiQuiet(d, e) ==
  /\ e \in SsiDev /\ e.name = d.name /\ e.raw = d.raw /\ e.rom = d.rom
  /\ \A s \in SsiLib!Channels : e.data[s].last = d.data[s].last
  /\ \A i \in 0..3 : e.reg[520 + i] = d.reg[520 + i]
SsiSameMode(d, e, s) == SsiLib!GetWire(e, s) = SsiLib!GetWire(d, s) /\ SsiLib!GetJpt(e, s) = SsiLib!GetJpt(d, s)
SsiChosen(d, e, ch, w, j) ==
  /\ SsiQuiet(d, e) /\ e.off = d.off /\ SsiLib!OffsetOf(e.data[ch].wire) = w
  /\ SsiLib!GetWire(e, ch) = w /\ SsiLib!GetJpt(e, ch) = j
  /\ \A s \in SsiLib!Channels \ {ch} : SsiSameMode(d, e, s)

LEMMA SsiChoose ==
  ASSUME NEW d \in SsiDev, NEW ch \in SsiLib!Channels, NEW w \in SsiLib!Wires, NEW j \in {"PT", "JPT"},
         NEW e, e = SsiLib!SetChannel(d, ch, w, j)
  PROVE  SsiChosen(d, e, ch, w, j)
<1> DEFINE word == SsiLib!SET_RTD(SsiLib!WireMode(w), SsiLib!Standard(j))
           new == [last |-> d.data[ch].last, std |-> SsiLib!GET_RTD_STANDARD(word), wire |-> SsiLib!GET_RTD_WIRE_MODE(word)]
           f == [d.data EXCEPT ![ch] = new]
           x == SsiLib!set_channeldata_basic(d, ch, word)
           at == SsiLib!CHANNEL_DATA[ch + 1]
<1>1. e = SsiLib!write_word(x, at, word)
  BY DEF SsiLib!SetChannel, SsiLib!SetChannelIoctl, SsiLib!set_channel
<1>2. x = [d EXCEPT !.data = f]
  BY DEF SsiLib!set_channeldata_basic
<1>3. PICK n \in Int : word = <<96, n>>
  BY SsiRtd
<1>4. /\ SsiLib!GET_RTD_WIRE_MODE(word) \in Int /\ SsiLib!OffsetOf(SsiLib!GET_RTD_WIRE_MODE(word)) = w
      /\ SsiLib!GET_RTD_STANDARD(word) \in Int /\ (IF SsiLib!GET_RTD_STANDARD(word) = 2 THEN "JPT" ELSE "PT") = j
  BY SsiRtd
<1> HIDE DEF word
<1>5. d.data \in SsiDatas /\ d.data[ch] \in SsiData
  BY DEF SsiDev, SsiDatas
<1>6. new \in SsiData /\ new.last = d.data[ch].last /\ SsiLib!OffsetOf(new.wire) = w
  BY <1>4, <1>5 DEF SsiData
<1> HIDE DEF new
<1>7. f \in SsiDatas /\ f[ch] = new /\ \A s \in SsiLib!Channels : s # ch => f[s] = d.data[s]
  BY <1>5, <1>6 DEF SsiDatas
<1> HIDE DEF f
<1>8. SsiBut(d, x, {"data"}) /\ x.data = f
  BY <1>2, <1>7, SsiPutData
<1> HIDE DEF x
<1>9. x \in SsiDev /\ x.reg = d.reg
  BY <1>8 DEF SsiBut
<1>10. at \in SsiLib!Words /\ 96 \in Int /\ at \in Int /\ at > 524
  BY SsiWords
<1>11. SsiWrote(x, e, at, word)
  BY <1>1, <1>3, <1>9, <1>10, SsiWriteWord
<1>12. e \in SsiDev /\ SsiBut(d, e, {"data", "reg"}) /\ e.data = f
  BY <1>8, <1>11 DEF SsiWrote, SsiBut
<1>13. \A s \in SsiLib!Channels : e.data[s].last = d.data[s].last
  BY <1>6, <1>7, <1>12
<1>14. \A i \in 0..3 : e.reg[520 + i] = d.reg[520 + i]
  <2> TAKE i \in 0..3
  <2>1. 520 + i \in SsiLib!Addresses /\ 520 + i < at
    BY <1>10, SsiWords
  <2> QED  BY <1>9, <1>11, <2>1 DEF SsiWrote
<1>15. SsiWord(e, at) = word
  BY <1>11 DEF SsiWrote
<1>16. SsiLib!GetWire(e, ch) = w
  BY <1>4, <1>12, <1>15, SsiWireIs
<1>17. SsiLib!GetJpt(e, ch) = j
  BY <1>4, <1>12, <1>15, SsiJptIs
<1>18. \A s \in SsiLib!Channels \ {ch} : SsiSameMode(d, e, s)
  <2> TAKE s \in SsiLib!Channels \ {ch}
  <2>1. SsiLib!CHANNEL_DATA[s + 1] \in SsiLib!Words /\ SsiLib!CHANNEL_DATA[s + 1] # at
    BY SsiWords
  <2> DEFINE b == SsiLib!CHANNEL_DATA[s + 1]
  <2>2. SsiWord(e, b) = SsiWord(x, b)
    <3>1. b \in SsiLib!Words /\ b # at
      BY <2>1
    <3> HIDE DEF b, at
    <3> QED  BY <1>10, <1>11, <3>1, SsiOtherWord
  <2>3. SsiWord(x, b) = SsiWord(d, b)
    BY <1>9 DEF SsiWord
  <2>4. SsiLib!GetWire(e, s) = SsiLib!GetWire(d, s)
    <3>1. SsiLib!GetWire(e, s) = SsiLib!OffsetOf(SsiLib!GET_RTD_WIRE_MODE(SsiWord(e, b)))
      BY <1>12, SsiWireIs
    <3>2. SsiLib!GetWire(d, s) = SsiLib!OffsetOf(SsiLib!GET_RTD_WIRE_MODE(SsiWord(d, b)))
      BY SsiWireIs
    <3> QED  BY <2>2, <2>3, <3>1, <3>2
  <2>5. SsiLib!GetJpt(e, s) = SsiLib!GetJpt(d, s)
    <3>1. SsiLib!GetJpt(e, s) = IF SsiLib!GET_RTD_STANDARD(SsiWord(e, b)) = 2 THEN "JPT" ELSE "PT"
      BY <1>12, SsiJptIs
    <3>2. SsiLib!GetJpt(d, s) = IF SsiLib!GET_RTD_STANDARD(SsiWord(d, b)) = 2 THEN "JPT" ELSE "PT"
      BY SsiJptIs
    <3> QED  BY <2>2, <2>3, <3>1, <3>2
  <2> QED  BY <2>4, <2>5 DEF SsiSameMode
<1>19. SsiQuiet(d, e) /\ e.off = d.off
  BY <1>12, <1>13, <1>14 DEF SsiQuiet, SsiBut
<1>20. SsiLib!OffsetOf(e.data[ch].wire) = w
  BY <1>6, <1>7, <1>12
<1> QED
  BY <1>16, <1>17, <1>18, <1>19, <1>20 DEF SsiChosen

LEMMA SsiQuietThen ==
  ASSUME NEW d, NEW e, NEW f, SsiQuiet(d, e), SsiQuiet(e, f)
  PROVE  SsiQuiet(d, f)
BY DEF SsiQuiet

\* Choosing what was chosen before leaves every channel as it was.
LEMMA SsiRestored ==
  ASSUME NEW d \in SsiDev, NEW x \in SsiDev, NEW ch \in SsiLib!Channels, NEW w, NEW e,
         \A s \in SsiLib!Channels \ {ch} : SsiSameMode(d, x, s),
         e = SsiLib!SetChannel(x, ch, SsiLib!GetWire(d, ch), SsiLib!GetJpt(d, ch))
  PROVE  SsiQuiet(x, e) /\ e.off = x.off /\ \A s \in SsiLib!Channels : SsiSameMode(d, e, s)
<1>1. SsiLib!GetWire(d, ch) \in SsiLib!Wires /\ SsiLib!GetJpt(d, ch) \in {"PT", "JPT"}
  BY SsiModeIs
<1>2. SsiChosen(x, e, ch, SsiLib!GetWire(d, ch), SsiLib!GetJpt(d, ch))
  BY <1>1, SsiChoose
<1> QED
  BY <1>2 DEF SsiChosen, SsiSameMode

\* An offset reaches the wiring it is for, whichever the channel has.
SsiCorrected(d, e, ch, w, b) ==
  /\ SsiQuiet(d, e) /\ (\A s \in SsiLib!Channels : SsiSameMode(d, e, s))
  /\ e.off[ch][w] = b
  /\ \A s \in SsiLib!Channels, v \in SsiLib!Wires : (s # ch \/ v # w) => e.off[s][v] = d.off[s][v]

LEMMA SsiCorrect ==
  ASSUME NEW d \in SsiDev, NEW ch \in SsiLib!Channels, NEW w \in SsiLib!Wires, NEW n, SsiLib!double2uchar(n) \in SsiByte,
         NEW e, e = SsiLib!SetCalibrationOffset(d, ch, w, n)
  PROVE  SsiCorrected(d, e, ch, w, SsiLib!double2uchar(n))
<1> DEFINE b == SsiLib!double2uchar(n)
           x == SsiLib!SetChannel(d, ch, w, SsiLib!GetJpt(d, ch))
           y == SsiLib!set_channeldata_offset(x, ch, b)
           f == [x.off EXCEPT ![ch] = [@ EXCEPT ![w] = b]]
<1>1. e = SsiLib!SetChannel(y, ch, SsiLib!GetWire(d, ch), SsiLib!GetJpt(d, ch))
  BY DEF SsiLib!SetCalibrationOffset
<1>2. SsiChosen(d, x, ch, w, SsiLib!GetJpt(d, ch))
  BY SsiModeIs, SsiChoose
<1> HIDE DEF x
<1>3. x \in SsiDev /\ x.off = d.off /\ x.off \in SsiOffs /\ SsiLib!OffsetOf(x.data[ch].wire) = w
  BY <1>2 DEF SsiChosen, SsiQuiet, SsiDev
<1> HIDE DEF b
<1>4. y = [x EXCEPT !.off = f]
  BY <1>3 DEF SsiLib!set_channeldata_offset
<1>5. /\ f \in SsiOffs /\ f[ch][w] = b
      /\ \A s \in SsiLib!Channels, v \in SsiLib!Wires : (s # ch \/ v # w) => f[s][v] = x.off[s][v]
  <2>1. b \in SsiByte
    BY DEF b
  <2> QED  BY <1>3, <2>1 DEF SsiOffs
<1> HIDE DEF f
<1>6. SsiBut(x, y, {"off"}) /\ y.off = f
  BY <1>3, <1>4, <1>5, SsiPutOff
<1> HIDE DEF y
<1>7. y \in SsiDev /\ y.reg = x.reg /\ SsiQuiet(x, y)
  BY <1>6 DEF SsiBut, SsiQuiet
<1>8. \A s \in SsiLib!Channels \ {ch} : SsiSameMode(d, y, s)
  <2> TAKE s \in SsiLib!Channels \ {ch}
  <2>1. SsiSameMode(d, x, s)
    BY <1>2 DEF SsiChosen
  <2>2. SsiWord(y, SsiLib!CHANNEL_DATA[s + 1]) = SsiWord(x, SsiLib!CHANNEL_DATA[s + 1])
    BY <1>7 DEF SsiWord
  <2>3. SsiLib!GetWire(y, s) = SsiLib!GetWire(x, s)
    BY <1>3, <1>7, <2>2, SsiWireIs
  <2>4. SsiLib!GetJpt(y, s) = SsiLib!GetJpt(x, s)
    BY <1>3, <1>7, <2>2, SsiJptIs
  <2> QED  BY <2>1, <2>3, <2>4 DEF SsiSameMode
<1>9. SsiQuiet(y, e) /\ e.off = y.off /\ \A s \in SsiLib!Channels : SsiSameMode(d, e, s)
  BY <1>1, <1>7, <1>8, SsiRestored
<1>10. SsiQuiet(d, x)
  BY <1>2 DEF SsiChosen
<1>11. SsiQuiet(d, e)
  BY <1>7, <1>9, <1>10, SsiQuietThen
<1>12. SsiCorrected(d, e, ch, w, b)
  BY <1>3, <1>5, <1>6, <1>9, <1>11 DEF SsiCorrected
<1> QED
  BY <1>12 DEF b

(* What the answers depend on *)

\* What a measurement shows of an offset is the offset.
LEMMA SsiSwing ==
  ASSUME NEW reg \in SsiRaw, NEW b \in SsiByte
  PROVE  (SsiLib!Temperature(SsiLib!addsub(reg, b)) - SsiLib!Temperature(reg)) \div 32 = SsiLib!uchar2double(b)
<1> DEFINE o == SsiLib!uchar2double(b)
           t == SsiLib!Temperature(reg)
           a == SsiLib!addsub(reg, b)
<1>1. reg \in Int /\ 0 <= reg /\ reg < 16777216 /\ b \in Int /\ 0 <= b /\ b < 256
  BY SMT DEF SsiRaw, SsiByte
<1>2. o \in Int /\ -128 <= o /\ o < 128 /\ a = (reg + 32 * o) % 16777216
  <2>1. CASE b < 128
    <3>1. b % 128 = b
      BY SMT, <1>1, <2>1
    <3>2. o = b
      BY SMT, <1>1, <2>1, <3>1 DEF SsiLib!uchar2double
    <3>3. a = (reg + b * 32) % 16777216
      BY SMT, <1>1, <2>1, <3>1 DEF SsiLib!addsub
    <3> HIDE DEF o, a
    <3> QED  BY SMT, <1>1, <2>1, <3>2, <3>3
  <2>2. CASE b >= 128
    <3>1. b % 128 = b - 128
      BY SMT, <1>1, <2>2
    <3>2. o = b - 256
      BY SMT, <1>1, <2>2, <3>1 DEF SsiLib!uchar2double
    <3>3. a = (reg - (256 - b) * 32) % 16777216
      BY SMT, <1>1, <2>2, <3>1 DEF SsiLib!addsub
    <3>4. reg - (256 - b) * 32 = reg + 32 * (b - 256)
      BY SMT, <1>1
    <3> HIDE DEF o, a
    <3> QED  BY SMT, <1>1, <2>2, <3>2, <3>3, <3>4
  <2> QED  BY SMT, <1>1, <2>1, <2>2
<1>3. t \in Int /\ -8380000 < t /\ t < 8380000
  BY SMT, <1>1 DEF SsiRaw, SsiLib!Temperature
<1>4. (reg < 8388608 /\ t = reg) \/ (reg >= 8388608 /\ t = reg - 16777216)
  <2>1. CASE reg < 8388608
    <3>1. reg % 8388608 = reg
      BY SMT, <1>1, <2>1
    <3> QED  BY SMT, <1>1, <2>1, <3>1 DEF SsiLib!Temperature
  <2>2. CASE reg >= 8388608
    <3>1. reg % 8388608 = reg - 8388608
      BY SMT, <1>1, <2>2
    <3> QED  BY SMT, <1>1, <2>2, <3>1 DEF SsiLib!Temperature
  <2> QED  BY SMT, <1>1, <2>1, <2>2
<1> HIDE DEF o, t, a
<1>5. a \in Int /\ 0 <= a /\ a < 16777216
  BY SMT, <1>1, <1>2
<1>6. (t + 32 * o >= 0 /\ a = t + 32 * o) \/ (t + 32 * o < 0 /\ a = t + 32 * o + 16777216)
  <2>1. PICK m \in Int : m = t + 32 * o
    BY SMT, <1>2, <1>3
  <2>2. -8388608 <= m /\ m < 8388608
    BY SMT, <1>2, <1>3, <2>1
  <2>3. (reg + 32 * o = m) \/ (reg + 32 * o = m + 16777216)
    BY SMT, <1>1, <1>2, <1>3, <1>4, <2>1
  <2>4. (a = m % 16777216) \/ (a = (m + 16777216) % 16777216)
    BY SMT, <1>2, <2>3
  <2>5. CASE m >= 0
    <3>1. m % 16777216 = m /\ (m + 16777216) % 16777216 = m
      BY SMT, <2>2, <2>5
    <3> QED  BY SMT, <2>1, <2>4, <2>5, <3>1
  <2>6. CASE m < 0
    <3>1. m % 16777216 = m + 16777216 /\ (m + 16777216) % 16777216 = m + 16777216
      BY SMT, <2>2, <2>6
    <3> QED  BY SMT, <2>1, <2>4, <2>6, <3>1
  <2> QED  BY SMT, <2>1, <2>5, <2>6
<1>7. SsiLib!Temperature(a) = t + 32 * o
  <2>1. CASE t + 32 * o >= 0
    <3>1. a < 8388608 /\ a % 8388608 = a
      BY SMT, <1>2, <1>3, <1>6, <2>1
    <3> QED  BY SMT, <1>2, <1>3, <1>5, <1>6, <2>1, <3>1 DEF SsiLib!Temperature
  <2>2. CASE t + 32 * o < 0
    <3>1. a >= 8388608 /\ a % 8388608 = a - 8388608
      BY SMT, <1>2, <1>3, <1>5, <1>6, <2>2
    <3> QED  BY SMT, <1>2, <1>3, <1>5, <1>6, <2>2, <3>1 DEF SsiLib!Temperature
  <2> QED  BY SMT, <1>2, <1>3, <2>1, <2>2
<1>8. (t + 32 * o) - t = 32 * o /\ (32 * o) \div 32 = o
  BY SMT, <1>2, <1>3
<1>9. (SsiLib!Temperature(a) - t) \div 32 = o
  BY SMT, <1>7, <1>8
<1> QED
  BY SMT, <1>9 DEF o, t, a

\* A measurement adds the offset of the wiring the driver has.
LEMMA SsiMeasures ==
  ASSUME NEW d \in SsiDev, NEW s \in SsiLib!Channels, NEW w, w = SsiLib!OffsetOf(d.data[s].wire)
  PROVE  SsiLib!SingleTemperature(d, s) = SsiLib!Temperature(SsiLib!addsub(d.raw[s], d.off[s][w]))
<1> DEFINE x == SsiLib!Start(d, s)
           at == SsiLib!TEMP_CHANNEL[s + 1]
<1>1. SsiBut(d, x, {"reg"}) /\ SsiWord(x, at) = <<1, d.raw[s]>>
  BY SsiStarted
<1>2. SsiLib!SingleTemperature(d, s) = SsiLib!Temperature(SsiLib!addsub(SsiLib!read_word(x, at)[2], SsiLib!get_channeldata_offset(x, s)))
  BY DEF SsiLib!SingleTemperature, SsiLib!InDataVal, SsiLib!get_temprature
<1> HIDE DEF x
<1>3. x \in SsiDev /\ x.data = d.data /\ x.off = d.off /\ at \in SsiLib!Words
  BY <1>1, SsiWords DEF SsiBut
<1> HIDE DEF at
<1>4. SsiLib!read_word(x, at) = <<1, d.raw[s]>>
  BY <1>1, <1>3, SsiReadWord
<1>5. SsiLib!get_channeldata_offset(x, s) = d.off[s][w]
  BY <1>3 DEF SsiLib!get_channeldata_offset
<1> QED
  BY <1>2, <1>4, <1>5

\* What each getter answers, in terms of the state it reads.
LEMMA SsiOffsetIs ==
  ASSUME NEW d \in SsiDev, NEW s \in SsiLib!Channels, NEW w \in SsiLib!Wires
  PROVE  SsiLib!Answers(d, <<w, s>>) = {SsiLib!uchar2double(d.off[s][w])}
<1> DEFINE x == SsiLib!SetChannel(d, s, w, SsiLib!GetJpt(d, s))
           v == SsiLib!OffsetOf(d.data[s].wire)
           more == {(SsiLib!SingleTemperature(d, s) - SsiLib!Temperature(d.raw[s])) \div 32 : u \in {w} \cap {v}}
<1>1. SsiLib!Answers(d, <<w, s>>) = {SsiLib!GetCalibrationOffset(d, s, w)} \cup more
  BY DEF SsiLib!Answers, SsiLib!Wires
<1>2. SsiChosen(d, x, s, w, SsiLib!GetJpt(d, s))
  BY SsiModeIs, SsiChoose
<1>3. SsiLib!GetCalibrationOffset(d, s, w) = SsiLib!uchar2double(SsiLib!get_channeldata_offset(x, s))
  BY DEF SsiLib!GetCalibrationOffset
<1> HIDE DEF x
<1>4. SsiLib!get_channeldata_offset(x, s) = d.off[s][w]
  BY <1>2 DEF SsiChosen, SsiLib!get_channeldata_offset
<1>5. ASSUME v = w
      PROVE  (SsiLib!SingleTemperature(d, s) - SsiLib!Temperature(d.raw[s])) \div 32 = SsiLib!uchar2double(d.off[s][w])
  <2>1. SsiLib!SingleTemperature(d, s) = SsiLib!Temperature(SsiLib!addsub(d.raw[s], d.off[s][w]))
    BY <1>5, SsiMeasures
  <2>2. d.raw[s] \in SsiRaw /\ d.off[s][w] \in SsiByte
    BY DEF SsiDev, SsiRaws, SsiOffs
  <2> QED  BY <2>1, <2>2, SsiSwing
<1> HIDE DEF v
<1>6. more \subseteq {SsiLib!uchar2double(d.off[s][w])}
  BY <1>5
<1> HIDE DEF more
<1> QED
  BY <1>1, <1>3, <1>4, <1>6

LEMMA SsiChannelIs ==
  ASSUME NEW d, NEW s
  PROVE  SsiLib!Answers(d, <<"SetChannel", s>>) = {<<SsiLib!GetWire(d, s), SsiLib!GetJpt(d, s)>>}
BY DEF SsiLib!Answers, SsiLib!SingleResistance

LEMMA SsiGainIs ==
  ASSUME NEW d \in SsiDev, NEW s
  PROVE  SsiLib!Answers(d, <<"Gain", s>>) = {SsiLib!GET_SENSE(SsiWord(d, 520)) - SsiLib!SENSE_DEFAULT}
<1>1. SsiLib!read_word(d, 520) = SsiWord(d, 520)
  BY SsiReadWord, SsiWords
<1> QED
  BY <1>1 DEF SsiLib!Answers, SsiLib!GetCalibrationGain, SsiLib!GetSenseResistor, SsiLib!get_sense_resistance, SsiLib!SENSE_RESISTANCE

LEMMA SsiRomGainIs ==
  ASSUME NEW d, NEW s
  PROVE  SsiLib!Answers(d, <<"WriteGain", s>>) = {SsiLib!ushort2double(d.rom[0])}
BY DEF SsiLib!Answers, SsiLib!ReadCalibrationGain, SsiLib!ReadRom

\* The offsets in a word of the ROM.
SsiRomOffsets(word) == <<SsiLib!uchar2double((word \div 256) % 256), SsiLib!uchar2double(word % 256)>>

LEMMA SsiRomOffsetIs ==
  ASSUME NEW d, NEW s
  PROVE  SsiLib!Answers(d, <<"WriteOffset", s>>) = {SsiRomOffsets(d.rom[s + 1])}
BY DEF SsiLib!Answers, SsiLib!ReadCalibrationOffset, SsiLib!ReadRom, SsiLib!UnpackOffsets, SsiRomOffsets

LEMMA SsiLastIs ==
  ASSUME NEW d, NEW s \in SsiLib!Channels
  PROVE  SsiLib!Answers(d, <<"last", s>>) = {d.data[s].last}
BY DEF SsiLib!Answers, SsiLib!GetStatus, SsiLib!InStatusVal

LEMMA SsiByteIs ==
  ASSUME NEW d \in SsiDev, NEW s \in SsiLib!Channels
  PROVE  SsiLib!Answers(d, <<"byte", s>>) = {d.reg[520 + s]}
<1>1. 520 + s \in SsiLib!Addresses
  BY SsiWords DEF SsiLib!Channels
<1>2. SsiLib!command_4p_read(d, 520 + s) = d.reg[520 + s]
  BY <1>1, SsiReadByte
<1> QED
  BY <1>2 DEF SsiLib!Answers, SsiLib!DirectCommandInput, SsiLib!SENSE_RESISTANCE

\* Where an answer comes from: the state that must stay.
SsiSameAt(d, e, c, s) ==
  /\ c = "SetChannel" => SsiSameMode(d, e, s)
  /\ c \in SsiLib!Wires => (e.off[s][c] = d.off[s][c])
  /\ c = "Gain" => (SsiWord(e, 520) = SsiWord(d, 520))
  /\ c = "WriteGain" => (e.rom[0] = d.rom[0])
  /\ c = "WriteOffset" => (e.rom[s + 1] = d.rom[s + 1])
  /\ c = "last" => (e.data[s].last = d.data[s].last)
  /\ c = "byte" => (e.reg[520 + s] = d.reg[520 + s])

\* An answer whose sources stay is the same.
LEMMA SsiSame ==
  ASSUME NEW d \in SsiDev, NEW e \in SsiDev, e.name = d.name,
         NEW c, NEW s, <<c, s>> \in SsiKeys, SsiSameAt(d, e, c, s)
  PROVE  SsiLib!Answers(e, <<c, s>>) = SsiLib!Answers(d, <<c, s>>)
<1>1. CASE c = "channels"
  BY <1>1 DEF SsiLib!Answers, SsiLib!find_sensor_device
<1>2. CASE c = "name"
  BY <1>2 DEF SsiLib!Answers, SsiLib!find_sensor_device, SsiLib!get_ssi_devname
<1>3. CASE c = "SetChannel"
  BY <1>3, SsiChannelIs DEF SsiSameAt, SsiSameMode
<1>4. CASE c \in {"w3", "w4"}
  <2>1. c \in SsiLib!Wires /\ s \in SsiLib!Channels
    BY <1>4 DEF SsiKeys, SsiLib!Wires
  <2>2. SsiLib!Answers(e, <<c, s>>) = {SsiLib!uchar2double(e.off[s][c])}
    BY <2>1, SsiOffsetIs
  <2>3. SsiLib!Answers(d, <<c, s>>) = {SsiLib!uchar2double(d.off[s][c])}
    BY <2>1, SsiOffsetIs
  <2> QED  BY <2>1, <2>2, <2>3 DEF SsiSameAt
<1>5. CASE c = "Gain"
  <2>1. SsiLib!Answers(e, <<c, s>>) = {SsiLib!GET_SENSE(SsiWord(e, 520)) - SsiLib!SENSE_DEFAULT}
    BY <1>5, SsiGainIs
  <2>2. SsiLib!Answers(d, <<c, s>>) = {SsiLib!GET_SENSE(SsiWord(d, 520)) - SsiLib!SENSE_DEFAULT}
    BY <1>5, SsiGainIs
  <2> QED  BY <1>5, <2>1, <2>2 DEF SsiSameAt
<1>6. CASE c = "WriteGain"
  BY <1>6, SsiRomGainIs DEF SsiSameAt
<1>7. CASE c = "WriteOffset"
  <2>1. SsiLib!Answers(e, <<c, s>>) = {SsiRomOffsets(e.rom[s + 1])}
    BY <1>7, SsiRomOffsetIs
  <2>2. SsiLib!Answers(d, <<c, s>>) = {SsiRomOffsets(d.rom[s + 1])}
    BY <1>7, SsiRomOffsetIs
  <2> QED  BY <1>7, <2>1, <2>2 DEF SsiSameAt
<1>8. CASE c = "last"
  BY <1>8, SsiLastIs DEF SsiSameAt, SsiKeys
<1>9. CASE c = "byte"
  <2>0. s \in SsiLib!Channels
    BY <1>9 DEF SsiKeys
  <2>1. SsiLib!Answers(e, <<c, s>>) = {e.reg[520 + s]}
    BY <1>9, <2>0, SsiByteIs
  <2>2. SsiLib!Answers(d, <<c, s>>) = {d.reg[520 + s]}
    BY <1>9, <2>0, SsiByteIs
  <2> QED  BY <1>9, <2>1, <2>2 DEF SsiSameAt
<1> QED
  BY <1>1, <1>2, <1>3, <1>4, <1>5, <1>6, <1>7, <1>8, <1>9 DEF SsiKeys

\* All answers but those of K keep their sources.
SsiFrame(d, e, K) == \A c, s : <<c, s>> \in SsiKeys \ K => SsiSameAt(d, e, c, s)

LEMMA SsiKeeps ==
  ASSUME NEW d \in SsiDev, NEW e \in SsiDev, e.name = d.name, NEW K, SsiFrame(d, e, K)
  PROVE  \A k \in SsiKeys \ K : SsiLib!Answers(e, k) = SsiLib!Answers(d, k)
<1> TAKE k \in SsiKeys \ K
<1>1. PICK c, s : k = <<c, s>>
  BY DEF SsiKeys
<1>2. SsiSameAt(d, e, c, s)
  BY <1>1 DEF SsiFrame
<1> QED
  BY <1>1, <1>2, SsiSame

\* What a call must give: the answers it settles, and all others as before
\* but those it forgets.
SsiGives(d, r, e) ==
  /\ e \in SsiDev /\ e.name = d.name
  /\ DOMAIN SsiLib!Settles(r) \subseteq SsiKeys
  /\ \A k \in DOMAIN SsiLib!Settles(r) : SsiLib!Answers(e, k) = {SsiLib!Settles(r)[k]}
  /\ \A k \in SsiKeys \ (DOMAIN SsiLib!Settles(r) \cup SsiLib!Forgets(r)) : SsiLib!Answers(e, k) = SsiLib!Answers(d, k)

LEMMA SsiSettlesOne ==
  ASSUME NEW d \in SsiDev, NEW r, NEW e \in SsiDev, e.name = d.name, NEW c, NEW s, NEW v,
         SsiLib!Settles(r) = [k \in {<<c, s>>} |-> v], <<c, s>> \in SsiKeys,
         SsiLib!Answers(e, <<c, s>>) = {v}, SsiFrame(d, e, {<<c, s>>} \cup SsiLib!Forgets(r))
  PROVE  SsiGives(d, r, e)
<1>1. DOMAIN SsiLib!Settles(r) = {<<c, s>>} /\ SsiLib!Settles(r)[<<c, s>>] = v
  OBVIOUS
<1>2. \A k \in SsiKeys \ ({<<c, s>>} \cup SsiLib!Forgets(r)) : SsiLib!Answers(e, k) = SsiLib!Answers(d, k)
  BY SsiKeeps
<1> QED
  BY <1>1, <1>2 DEF SsiGives

LEMMA SsiSettlesNothing ==
  ASSUME NEW d \in SsiDev, NEW r, NEW e \in SsiDev, e.name = d.name,
         SsiLib!Settles(r) = <<>>, SsiFrame(d, e, {})
  PROVE  SsiGives(d, r, e)
<1>1. \A k \in SsiKeys \ {} : SsiLib!Answers(e, k) = SsiLib!Answers(d, k)
  BY SsiKeeps
<1>2. DOMAIN SsiLib!Settles(r) = {}
  OBVIOUS
<1> QED
  BY <1>1, <1>2 DEF SsiGives

\* A quiet step leaves what it does not say it changes.
LEMMA SsiQuietFrame ==
  ASSUME NEW d \in SsiDev, NEW e, SsiQuiet(d, e), NEW K,
         \A s \in SsiLib!Channels : SsiSameMode(d, e, s) \/ (<<"SetChannel", s>> \in K),
         \A s \in SsiLib!Channels, w \in SsiLib!Wires : (e.off[s][w] = d.off[s][w]) \/ (<<w, s>> \in K)
  PROVE  SsiFrame(d, e, K)
<1>1. SsiWord(e, 520) = SsiWord(d, 520)
  <2>1. e.reg[520 + 0] = d.reg[520 + 0] /\ e.reg[520 + 1] = d.reg[520 + 1] /\ e.reg[520 + 2] = d.reg[520 + 2] /\ e.reg[520 + 3] = d.reg[520 + 3]
    BY DEF SsiQuiet
  <2>2. 520 + 0 = 520
    OBVIOUS
  <2> QED  BY <2>1, <2>2 DEF SsiWord
<1>2. \A s \in SsiLib!Channels : e.reg[520 + s] = d.reg[520 + s]
  BY DEF SsiQuiet, SsiLib!Channels
<1> SUFFICES ASSUME NEW c, NEW s, <<c, s>> \in SsiKeys \ K
             PROVE  SsiSameAt(d, e, c, s)
  BY DEF SsiFrame
<1>3. c \in {"SetChannel", "w3", "w4", "WriteOffset", "last", "byte"} => s \in SsiLib!Channels
  BY DEF SsiKeys
<1>4. (c = "SetChannel") => SsiSameMode(d, e, s)
  BY <1>3
<1>5. (c \in SsiLib!Wires) => (e.off[s][c] = d.off[s][c])
  BY <1>3 DEF SsiLib!Wires
<1>6. e.rom = d.rom /\ ((c = "last") => (e.data[s].last = d.data[s].last))
  BY <1>3 DEF SsiQuiet
<1> QED
  BY <1>1, <1>2, <1>3, <1>4, <1>5, <1>6 DEF SsiSameAt

\* Each call settles what it says and nothing else.
LEMMA SsiSetChannel ==
  ASSUME NEW d \in SsiDev, NEW r, r.call = "SetChannel", NEW ch \in SsiLib!Channels, r.ch = ch,
         NEW w \in SsiLib!Wires, NEW j \in {"PT", "JPT"}, r.how = <<w, j>>
  PROVE  SsiGives(d, r, SsiLib!Do(d, r))
<1> DEFINE e == SsiLib!Do(d, r)
           K == {<<"SetChannel", ch>>} \cup SsiLib!Forgets(r)
<1>1. e = SsiLib!SetChannel(d, ch, w, j)
  BY DEF SsiLib!Do
<1> HIDE DEF e
<1>2. SsiChosen(d, e, ch, w, j)
  BY <1>1, SsiChoose
<1>3. e \in SsiDev /\ e.name = d.name /\ SsiQuiet(d, e) /\ e.off = d.off
  BY <1>2 DEF SsiChosen, SsiQuiet
<1>4. SsiLib!Settles(r) = [k \in {<<"SetChannel", ch>>} |-> <<w, j>>]
  BY DEF SsiLib!Settles
<1>5. <<"SetChannel", ch>> \in SsiKeys
  BY DEF SsiKeys
<1>6. SsiLib!Answers(e, <<"SetChannel", ch>>) = {<<w, j>>}
  BY <1>2, SsiChannelIs DEF SsiChosen
<1>7. SsiFrame(d, e, K)
  <2>1. \A s \in SsiLib!Channels : SsiSameMode(d, e, s) \/ (<<"SetChannel", s>> \in K)
    BY <1>2 DEF SsiChosen
  <2> HIDE DEF K
  <2> QED  BY <1>3, <2>1, SsiQuietFrame
<1>8. SsiGives(d, r, e)
  BY <1>3, <1>4, <1>5, <1>6, <1>7, SsiSettlesOne
<1> QED
  BY <1>8 DEF e

\* A byte with a sign survives.
LEMMA SsiSigned ==
  ASSUME NEW n, SsiLib!SignedByte(n)
  PROVE  SsiLib!double2uchar(n) \in SsiByte /\ SsiLib!uchar2double(SsiLib!double2uchar(n)) = n
<1>1. n \in Int /\ -128 <= n /\ n < 128
  BY DEF SsiLib!SignedByte
<1>2. CASE n >= 0
  <2>1. n % 256 = n /\ n % 128 = n
    BY <1>1, <1>2
  <2> QED  BY <1>1, <1>2, <2>1 DEF SsiLib!double2uchar, SsiLib!uchar2double, SsiByte
<1>3. CASE n < 0
  <2>1. (-n) % 256 = -n /\ ((255 - (-n)) + 1) % 256 = 256 + n
    BY <1>1, <1>3
  <2>2. SsiLib!double2uchar(n) = 256 + n
    BY <1>1, <1>3, <2>1 DEF SsiLib!double2uchar
  <2>3. (256 + n) % 128 = 128 + n
    BY <1>1, <1>3
  <2>4. SsiLib!uchar2double(256 + n) = n
    BY <1>1, <1>3, <2>3 DEF SsiLib!uchar2double
  <2> QED  BY <1>1, <1>3, <2>2, <2>4 DEF SsiByte
<1> QED
  BY <1>1, <1>2, <1>3

LEMMA SsiSetOffset ==
  ASSUME NEW d \in SsiDev, NEW r, r.call = "SetOffset", NEW ch \in SsiLib!Channels, r.ch = ch,
         NEW w \in SsiLib!Wires, r.how = <<w>>, NEW n, r.num[1] = n, SsiLib!SignedByte(n)
  PROVE  SsiGives(d, r, SsiLib!Do(d, r))
<1> DEFINE e == SsiLib!Do(d, r)
           K == {<<w, ch>>} \cup SsiLib!Forgets(r)
           b == SsiLib!double2uchar(n)
<1>1. e = SsiLib!SetCalibrationOffset(d, ch, w, n)
  BY DEF SsiLib!Do
<1> HIDE DEF e
<1>2. b \in SsiByte /\ SsiLib!uchar2double(b) = n
  BY SsiSigned
<1>3. SsiCorrected(d, e, ch, w, b)
  BY <1>1, <1>2, SsiCorrect
<1> HIDE DEF b
<1>4. e \in SsiDev /\ e.name = d.name /\ SsiQuiet(d, e)
  BY <1>3 DEF SsiCorrected, SsiQuiet
<1>5. SsiLib!Settles(r) = [k \in {<<w, ch>>} |-> n]
  BY DEF SsiLib!Settles
<1>6. <<w, ch>> \in SsiKeys
  BY DEF SsiKeys, SsiLib!Wires
<1>7. SsiLib!Answers(e, <<w, ch>>) = {n}
  <2>1. SsiLib!Answers(e, <<w, ch>>) = {SsiLib!uchar2double(e.off[ch][w])}
    BY <1>4, SsiOffsetIs
  <2> QED  BY <1>2, <1>3, <2>1 DEF SsiCorrected
<1>8. SsiFrame(d, e, K)
  <2>1. \A s \in SsiLib!Channels, v \in SsiLib!Wires : (e.off[s][v] = d.off[s][v]) \/ (<<v, s>> \in K)
    BY <1>3 DEF SsiCorrected
  <2>2. \A s \in SsiLib!Channels : SsiSameMode(d, e, s)
    BY <1>3 DEF SsiCorrected
  <2> HIDE DEF K
  <2> QED  BY <1>4, <2>1, <2>2, SsiQuietFrame
<1>9. SsiGives(d, r, e)
  BY <1>4, <1>5, <1>6, <1>7, <1>8, SsiSettlesOne
<1> QED
  BY <1>9 DEF e

LEMMA SsiGetOffset ==
  ASSUME NEW d \in SsiDev, NEW r, r.call = "GetOffset", NEW ch \in SsiLib!Channels, r.ch = ch, NEW w \in SsiLib!Wires, r.how = <<w>>
  PROVE  SsiGives(d, r, SsiLib!Do(d, r))
<1> DEFINE e == SsiLib!Do(d, r)
           x == SsiLib!SetChannel(d, ch, w, SsiLib!GetJpt(d, ch))
<1>1. e = SsiLib!SetChannel(x, ch, SsiLib!GetWire(d, ch), SsiLib!GetJpt(d, ch))
  BY DEF SsiLib!Do, SsiLib!AfterGetOffset
<1>2. SsiChosen(d, x, ch, w, SsiLib!GetJpt(d, ch))
  BY SsiModeIs, SsiChoose
<1> HIDE DEF e, x
<1>3. x \in SsiDev /\ SsiQuiet(d, x) /\ x.off = d.off /\ \A s \in SsiLib!Channels \ {ch} : SsiSameMode(d, x, s)
  BY <1>2 DEF SsiChosen, SsiQuiet
<1>4. SsiQuiet(x, e) /\ e.off = x.off /\ \A s \in SsiLib!Channels : SsiSameMode(d, e, s)
  BY <1>1, <1>3, SsiRestored
<1>5. SsiQuiet(d, e)
  BY <1>3, <1>4, SsiQuietThen
<1>6. e \in SsiDev /\ e.name = d.name
  BY <1>5 DEF SsiQuiet
<1>7. SsiFrame(d, e, {})
  BY <1>3, <1>4, <1>5, SsiQuietFrame
<1>8. SsiLib!Settles(r) = <<>>
  BY DEF SsiLib!Settles
<1>9. SsiGives(d, r, e)
  BY <1>6, <1>7, <1>8, SsiSettlesNothing
<1> QED
  BY <1>9 DEF e

\* A channel whose word stays has the wiring and the standard it had.
LEMMA SsiModeStays ==
  ASSUME NEW d \in SsiDev, NEW e \in SsiDev, \A a \in SsiLib!Addresses : a > 524 => e.reg[a] = d.reg[a]
  PROVE  \A s \in SsiLib!Channels : SsiSameMode(d, e, s)
<1> TAKE s \in SsiLib!Channels
<1> DEFINE b == SsiLib!CHANNEL_DATA[s + 1]
<1>1. b \in SsiLib!Words /\ b > 524 /\ b \in Int
  BY SsiWords
<1>2. SsiLib!GetWire(d, s) = SsiLib!OffsetOf(SsiLib!GET_RTD_WIRE_MODE(SsiWord(d, b))) /\ SsiLib!GetWire(e, s) = SsiLib!OffsetOf(SsiLib!GET_RTD_WIRE_MODE(SsiWord(e, b)))
  BY SsiWireIs
<1>3. SsiLib!GetJpt(d, s) = (IF SsiLib!GET_RTD_STANDARD(SsiWord(d, b)) = 2 THEN "JPT" ELSE "PT")
  BY SsiJptIs
<1>4. SsiLib!GetJpt(e, s) = (IF SsiLib!GET_RTD_STANDARD(SsiWord(e, b)) = 2 THEN "JPT" ELSE "PT")
  BY SsiJptIs
<1> HIDE DEF b
<1>5. b + 0 \in SsiLib!Addresses /\ b + 1 \in SsiLib!Addresses /\ b + 2 \in SsiLib!Addresses /\ b + 3 \in SsiLib!Addresses /\ b + 0 = b
  BY <1>1, SsiWords
<1>6. e.reg[b] = d.reg[b] /\ e.reg[b + 1] = d.reg[b + 1] /\ e.reg[b + 2] = d.reg[b + 2] /\ e.reg[b + 3] = d.reg[b + 3]
  BY <1>1, <1>5
<1>7. SsiWord(e, b) = SsiWord(d, b)
  BY <1>6 DEF SsiWord
<1> QED
  BY <1>2, <1>3, <1>4, <1>7 DEF SsiSameMode

\* The resistor's word, and nothing else.
SsiSensed(d, e, v) ==
  /\ SsiBut(d, e, {"reg"}) /\ SsiLib!GET_SENSE(SsiWord(e, 520)) = v
  /\ \A s \in SsiLib!Channels : SsiSameMode(d, e, s)

LEMMA SsiSense ==
  ASSUME NEW d \in SsiDev, NEW v, SsiLib!Resistance(v), NEW e, e = SsiLib!SetSenseResistor(d, v)
  PROVE  SsiSensed(d, e, v)
<1> DEFINE q == v \div 16777216
           h == 232 + (q % 8)
           l == v % 16777216
<1>1. v \in Nat /\ q \in Nat /\ q < 8
  BY DEF SsiLib!Resistance
<1>2. v = (q * 16777216) + l /\ l \in Int
  BY <1>1
<1>3. e = SsiLib!write_word(d, 520, <<h, l>>)
  BY DEF SsiLib!SetSenseResistor, SsiLib!set_sense_resistance, SsiLib!SET_SENSE, SsiLib!SENSE_RESISTANCE
<1> HIDE DEF q, l
<1>4. h \in Int /\ h % 8 = q
  BY <1>1
<1> HIDE DEF h
<1>5. 520 \in SsiLib!Words
  BY SsiWords
<1>6. SsiWrote(d, e, 520, <<h, l>>)
  BY <1>2, <1>3, <1>4, <1>5, SsiWriteWord
<1>7. SsiLib!GET_SENSE(SsiWord(e, 520)) = v
  <2>1. SsiWord(e, 520) = <<h, l>>
    BY <1>6 DEF SsiWrote
  <2>2. SsiLib!GET_SENSE(<<h, l>>) = ((h % 8) * 16777216) + l
    BY DEF SsiLib!GET_SENSE
  <2> QED  BY <1>2, <1>4, <2>1, <2>2
<1>8. SsiBut(d, e, {"reg"}) /\ e \in SsiDev /\ \A a \in SsiLib!Addresses : a > 524 => e.reg[a] = d.reg[a]
  <2>1. \A a \in SsiLib!Addresses : a > 523 => e.reg[a] = d.reg[a]
    BY <1>6 DEF SsiWrote
  <2>2. \A a \in SsiLib!Addresses : a > 524 => a > 523
    BY SsiWords
  <2> QED  BY <1>6, <2>1, <2>2 DEF SsiWrote, SsiBut
<1>9. \A s \in SsiLib!Channels : SsiSameMode(d, e, s)
  BY <1>8, SsiModeStays
<1> QED
  BY <1>7, <1>8, <1>9 DEF SsiSensed

LEMMA SsiSensedGain ==
  ASSUME NEW d \in SsiDev, NEW e, NEW n \in Int, SsiSensed(d, e, n + SsiLib!SENSE_DEFAULT)
  PROVE  /\ e \in SsiDev /\ e.name = d.name /\ SsiLib!Answers(e, <<"Gain", 0>>) = {n}
         /\ SsiFrame(d, e, {<<"Gain", 0>>} \cup {<<"byte", i>> : i \in 0..3})
<1>1. e \in SsiDev /\ e.name = d.name
  BY DEF SsiSensed, SsiBut
<1>2. SsiLib!Answers(e, <<"Gain", 0>>) = {n}
  <2>1. SsiLib!GET_SENSE(SsiWord(e, 520)) - SsiLib!SENSE_DEFAULT = n
    BY DEF SsiSensed, SsiLib!SENSE_DEFAULT
  <2> QED  BY <1>1, <2>1, SsiGainIs
<1>3. SsiFrame(d, e, {<<"Gain", 0>>} \cup {<<"byte", i>> : i \in 0..3})
  <2>1. \A c, s : (<<c, s>> \in SsiKeys /\ c = "Gain") => s = 0
    BY DEF SsiKeys
  <2>2. \A c, s : (<<c, s>> \in SsiKeys /\ c = "byte") => s \in 0..3
    BY DEF SsiKeys, SsiLib!Channels
  <2>3. \A c, s : (<<c, s>> \in SsiKeys /\ c = "SetChannel") => s \in SsiLib!Channels
    BY DEF SsiKeys
  <2> QED  BY <2>1, <2>2, <2>3 DEF SsiFrame, SsiSameAt, SsiSensed, SsiBut
<1> QED
  BY <1>1, <1>2, <1>3

\* Both calls of the gain, and the initialization.
LEMMA SsiGainGiven ==
  ASSUME NEW d \in SsiDev, NEW r, NEW n \in Int, SsiLib!Resistance(n + SsiLib!SENSE_DEFAULT),
         NEW e, e = SsiLib!SetSenseResistor(d, n + SsiLib!SENSE_DEFAULT),
         SsiLib!Settles(r) = [k \in {<<"Gain", 0>>} |-> n], SsiLib!Forgets(r) = {<<"byte", i>> : i \in 0..3}
  PROVE  SsiGives(d, r, e)
<1>1. SsiSensed(d, e, n + SsiLib!SENSE_DEFAULT)
  BY SsiSense
<1>2. /\ e \in SsiDev /\ e.name = d.name /\ SsiLib!Answers(e, <<"Gain", 0>>) = {n}
      /\ SsiFrame(d, e, {<<"Gain", 0>>} \cup {<<"byte", i>> : i \in 0..3})
  BY <1>1, SsiSensedGain
<1>3. <<"Gain", 0>> \in SsiKeys
  BY DEF SsiKeys
<1>4. SsiFrame(d, e, {<<"Gain", 0>>} \cup SsiLib!Forgets(r))
  BY <1>2
<1> QED
  BY <1>2, <1>3, <1>4, SsiSettlesOne

LEMMA SsiSetGain ==
  ASSUME NEW d \in SsiDev, NEW r, r.call = "SetGain", NEW n \in Int, r.num[1] = n, SsiLib!Resistance(n + SsiLib!SENSE_DEFAULT)
  PROVE  SsiGives(d, r, SsiLib!Do(d, r))
<1>1. SsiLib!Do(d, r) = SsiLib!SetSenseResistor(d, n + SsiLib!SENSE_DEFAULT)
  BY DEF SsiLib!Do, SsiLib!SetCalibrationGain
<1>2. SsiLib!Settles(r) = [k \in {<<"Gain", 0>>} |-> n]
  BY DEF SsiLib!Settles
<1>3. SsiLib!Forgets(r) = {<<"byte", i>> : i \in 0..3}
  BY DEF SsiLib!Forgets
<1> QED
  BY <1>1, <1>2, <1>3, SsiGainGiven

\* A word with a sign survives.
LEMMA SsiShort ==
  ASSUME NEW n, SsiLib!SignedShort(n)
  PROVE  SsiLib!double2ushort(n) \in Int /\ SsiLib!double2ushort(n) % 65536 = SsiLib!double2ushort(n)
         /\ SsiLib!ushort2double(SsiLib!double2ushort(n)) = n
<1>1. n \in Int /\ -32768 <= n /\ n < 32768
  BY DEF SsiLib!SignedShort
<1>2. CASE n >= 0
  <2>1. n % 65536 = n /\ n % 32768 = n
    BY <1>1, <1>2
  <2> QED  BY <1>1, <1>2, <2>1 DEF SsiLib!double2ushort, SsiLib!ushort2double
<1>3. CASE n < 0
  <2>1. (-n) % 65536 = -n /\ ((65535 - (-n)) + 1) % 65536 = 65536 + n
    BY <1>1, <1>3
  <2>2. SsiLib!double2ushort(n) = 65536 + n
    BY <1>1, <1>3, <2>1 DEF SsiLib!double2ushort
  <2>3. (65536 + n) % 32768 = 32768 + n /\ (65536 + n) % 65536 = 65536 + n
    BY <1>1, <1>3
  <2>4. SsiLib!ushort2double(65536 + n) = n
    BY <1>1, <1>3, <2>3 DEF SsiLib!ushort2double
  <2> QED  BY <1>1, <2>2, <2>3, <2>4
<1> QED
  BY <1>1, <1>2, <1>3

LEMMA SsiSetGainToUShort ==
  ASSUME NEW d \in SsiDev, NEW r, r.call = "SetGainToUShort", NEW n, r.num[1] = n, SsiLib!SignedShort(n)
  PROVE  SsiGives(d, r, SsiLib!Do(d, r))
<1>1. SsiLib!Do(d, r) = SsiLib!SetSenseResistor(d, n + SsiLib!SENSE_DEFAULT)
  BY SsiShort DEF SsiLib!Do, SsiLib!SetCalibrationGainToUShort
<1>2. SsiLib!Settles(r) = [k \in {<<"Gain", 0>>} |-> n]
  BY DEF SsiLib!Settles
<1>3. SsiLib!Forgets(r) = {<<"byte", i>> : i \in 0..3}
  BY DEF SsiLib!Forgets
<1>4. n \in Int /\ SsiLib!Resistance(n + SsiLib!SENSE_DEFAULT)
  <2>1. n \in Int /\ n + 2048000 >= 0 /\ n + 2048000 < 3000000
    BY DEF SsiLib!SignedShort
  <2>2. (n + 2048000) \div 16777216 < 8
    BY <2>1
  <2> QED  BY <2>1, <2>2 DEF SsiLib!Resistance, SsiLib!SENSE_DEFAULT
<1> QED
  BY <1>1, <1>2, <1>3, <1>4, SsiGainGiven

LEMMA SsiInit ==
  ASSUME NEW d \in SsiDev, NEW r, r.call = "Init"
  PROVE  SsiGives(d, r, SsiLib!Do(d, r))
<1>1. PICK n \in Int : n = 0
  OBVIOUS
<1>2. n + SsiLib!SENSE_DEFAULT = SsiLib!SENSE_DEFAULT
  BY <1>1 DEF SsiLib!SENSE_DEFAULT
<1>3. SsiLib!Do(d, r) = SsiLib!SetSenseResistor(d, n + SsiLib!SENSE_DEFAULT)
  BY <1>2 DEF SsiLib!Do, SsiLib!Init, SsiLib!InitIoctl
<1>4. SsiLib!Settles(r) = [k \in {<<"Gain", 0>>} |-> n]
  BY <1>1 DEF SsiLib!Settles
<1>5. SsiLib!Forgets(r) = {<<"byte", i>> : i \in 0..3}
  BY DEF SsiLib!Forgets
<1>6. SsiLib!Resistance(n + SsiLib!SENSE_DEFAULT)
  BY <1>2 DEF SsiLib!Resistance, SsiLib!SENSE_DEFAULT
<1> QED
  BY <1>3, <1>4, <1>5, <1>6, SsiGainGiven

\* A step that leaves the registers leaves the wirings.
LEMMA SsiModeOfReg ==
  ASSUME NEW d \in SsiDev, NEW e \in SsiDev, e.reg = d.reg
  PROVE  \A s \in SsiLib!Channels : SsiSameMode(d, e, s)
BY SsiModeStays

LEMMA SsiRomWritten ==
  ASSUME NEW d \in SsiDev, NEW i \in 0..4, NEW v \in Int, NEW e, e = SsiLib!WriteRom(d, i, v)
  PROVE  /\ SsiBut(d, e, {"rom"}) /\ (\A s \in SsiLib!Channels : SsiSameMode(d, e, s))
         /\ e.rom[i] = v % 65536 /\ \A x \in 0..4 : x # i => e.rom[x] = d.rom[x]
<1> DEFINE w == v % 65536
           f == [d.rom EXCEPT ![i] = w]
<1>1. e = [d EXCEPT !.rom = f]
  BY DEF SsiLib!WriteRom
<1>2. w \in Int
  OBVIOUS
<1> HIDE DEF w
<1>3. d.rom \in SsiRoms
  BY DEF SsiDev
<1>4. f \in SsiRoms /\ f[i] = w /\ \A x \in 0..4 : x # i => f[x] = d.rom[x]
  BY <1>2, <1>3 DEF SsiRoms
<1> HIDE DEF f
<1>5. SsiBut(d, e, {"rom"}) /\ e.rom = f
  BY <1>1, <1>4, SsiPutRom
<1>6. e \in SsiDev /\ e.reg = d.reg
  BY <1>5 DEF SsiBut
<1>7. \A s \in SsiLib!Channels : SsiSameMode(d, e, s)
  BY <1>6, SsiModeOfReg
<1> QED
  BY <1>4, <1>5, <1>7 DEF w

LEMMA SsiRomFrame ==
  ASSUME NEW d \in SsiDev, NEW e, SsiBut(d, e, {"rom"}), \A s \in SsiLib!Channels : SsiSameMode(d, e, s), NEW K,
         (e.rom[0] = d.rom[0]) \/ (<<"WriteGain", 0>> \in K),
         \A s \in SsiLib!Channels : (e.rom[s + 1] = d.rom[s + 1]) \/ (<<"WriteOffset", s>> \in K)
  PROVE  SsiFrame(d, e, K)
<1> SUFFICES ASSUME NEW c, NEW s, <<c, s>> \in SsiKeys \ K
             PROVE  SsiSameAt(d, e, c, s)
  BY DEF SsiFrame
<1>1. c = "WriteGain" => s = 0
  BY DEF SsiKeys
<1>2. c \in {"SetChannel", "w3", "w4", "WriteOffset", "last", "byte"} => s \in SsiLib!Channels
  BY DEF SsiKeys
<1>3. SsiWord(e, 520) = SsiWord(d, 520)
  BY DEF SsiWord, SsiBut
<1> QED
  BY <1>1, <1>2, <1>3 DEF SsiSameAt, SsiBut

LEMMA SsiWriteGain ==
  ASSUME NEW d \in SsiDev, NEW r, r.call = "WriteGain", NEW n, r.num[1] = n, SsiLib!SignedShort(n)
  PROVE  SsiGives(d, r, SsiLib!Do(d, r))
<1> DEFINE e == SsiLib!Do(d, r)
           K == {<<"WriteGain", 0>>} \cup SsiLib!Forgets(r)
           b == SsiLib!double2ushort(n)
<1>1. e = SsiLib!WriteRom(d, 0, b)
  BY DEF SsiLib!Do, SsiLib!WriteCalibrationGain
<1>2. b \in Int /\ b % 65536 = b /\ SsiLib!ushort2double(b) = n
  BY SsiShort
<1> HIDE DEF e, b
<1>3. PICK i \in 0..4 : i = 0
  OBVIOUS
<1>4. /\ SsiBut(d, e, {"rom"}) /\ (\A s \in SsiLib!Channels : SsiSameMode(d, e, s))
      /\ e.rom[i] = b % 65536 /\ \A x \in 0..4 : x # i => e.rom[x] = d.rom[x]
  <2>1. b \in Int /\ e = SsiLib!WriteRom(d, i, b)
    BY <1>1, <1>2, <1>3
  <2> QED  BY <2>1, SsiRomWritten
<1>5. e \in SsiDev /\ e.name = d.name
  BY <1>4 DEF SsiBut
<1>6. SsiLib!Settles(r) = [k \in {<<"WriteGain", 0>>} |-> n]
  BY DEF SsiLib!Settles
<1>7. <<"WriteGain", 0>> \in SsiKeys
  BY DEF SsiKeys
<1>8. SsiLib!Answers(e, <<"WriteGain", 0>>) = {n}
  BY <1>2, <1>3, <1>4, SsiRomGainIs
<1>9. SsiFrame(d, e, K)
  <2>1. \A s \in SsiLib!Channels : e.rom[s + 1] = d.rom[s + 1]
    BY <1>3, <1>4 DEF SsiLib!Channels
  <2>2. <<"WriteGain", 0>> \in K
    OBVIOUS
  <2> HIDE DEF K
  <2> QED  BY <1>4, <2>1, <2>2, SsiRomFrame
<1>10. SsiGives(d, r, e)
  BY <1>5, <1>6, <1>7, <1>8, <1>9, SsiSettlesOne
<1> QED
  BY <1>10 DEF e

\* Two bytes in a word.
LEMMA SsiPacked ==
  ASSUME NEW a \in SsiByte, NEW b \in SsiByte, NEW v, v = SsiLib!PackOffsets(a, b)
  PROVE  v \in Int /\ v % 65536 = v /\ (v \div 256) % 256 = a /\ v % 256 = b
<1>1. v = a * 256 + b /\ a \in Int /\ b \in Int /\ 0 <= a /\ a < 256 /\ 0 <= b /\ b < 256
  BY DEF SsiLib!PackOffsets, SsiByte
<1>2. v \in Int /\ 0 <= v /\ v < 65536
  BY <1>1
<1>3. v % 65536 = v
  BY <1>2
<1>4. v \div 256 = a /\ v % 256 = b
  BY <1>1
<1>5. a % 256 = a
  BY <1>1
<1> QED
  BY <1>2, <1>3, <1>4, <1>5

LEMMA SsiWriteOffset ==
  ASSUME NEW d \in SsiDev, NEW r, r.call = "WriteOffset", NEW ch \in SsiLib!Channels, r.ch = ch,
         NEW m, NEW n, r.num = <<m, n>>, SsiLib!SignedByte(m), SsiLib!SignedByte(n)
  PROVE  SsiGives(d, r, SsiLib!Do(d, r))
<1> DEFINE e == SsiLib!Do(d, r)
           K == {<<"WriteOffset", ch>>} \cup SsiLib!Forgets(r)
           a == SsiLib!double2uchar(m)
           b == SsiLib!double2uchar(n)
           v == SsiLib!PackOffsets(a, b)
<1>1. e = SsiLib!WriteRom(d, ch + 1, v)
  BY DEF SsiLib!Do, SsiLib!WriteCalibrationOffset
<1>2. a \in SsiByte /\ SsiLib!uchar2double(a) = m
  BY SsiSigned
<1>3. b \in SsiByte /\ SsiLib!uchar2double(b) = n
  BY SsiSigned
<1> HIDE DEF e, a, b
<1>4. v \in Int /\ v % 65536 = v /\ (v \div 256) % 256 = a /\ v % 256 = b
  BY <1>2, <1>3, SsiPacked
<1> HIDE DEF v
<1>5. PICK i \in 0..4 : i = ch + 1
  BY DEF SsiLib!Channels
<1>6. /\ SsiBut(d, e, {"rom"}) /\ (\A s \in SsiLib!Channels : SsiSameMode(d, e, s))
      /\ e.rom[i] = v % 65536 /\ \A x \in 0..4 : x # i => e.rom[x] = d.rom[x]
  BY <1>1, <1>4, <1>5, SsiRomWritten
<1>7. e \in SsiDev /\ e.name = d.name
  BY <1>6 DEF SsiBut
<1>8. SsiLib!Settles(r) = [k \in {<<"WriteOffset", ch>>} |-> <<m, n>>]
  BY DEF SsiLib!Settles
<1>9. <<"WriteOffset", ch>> \in SsiKeys
  BY DEF SsiKeys
<1>10. SsiLib!Answers(e, <<"WriteOffset", ch>>) = {<<m, n>>}
  <2>1. SsiLib!Answers(e, <<"WriteOffset", ch>>) = {SsiRomOffsets(e.rom[ch + 1])}
    BY SsiRomOffsetIs
  <2>2. e.rom[ch + 1] = v
    BY <1>4, <1>5, <1>6
  <2>3. SsiRomOffsets(v) = <<m, n>>
    BY <1>2, <1>3, <1>4 DEF SsiRomOffsets
  <2> QED  BY <2>1, <2>2, <2>3
<1>11. SsiFrame(d, e, K)
  <2>1. \A s \in SsiLib!Channels : (e.rom[s + 1] = d.rom[s + 1]) \/ (<<"WriteOffset", s>> \in K)
    <3> TAKE s \in SsiLib!Channels
    <3>1. CASE s = ch
      BY <3>1
    <3>2. CASE s # ch
      <4>1. s + 1 \in 0..4 /\ s + 1 # i
        BY <1>5, <3>2 DEF SsiLib!Channels
      <4> QED  BY <1>6, <4>1
    <3> QED  BY <3>1, <3>2
  <2>2. e.rom[0] = d.rom[0]
    <3>1. PICK x \in 0..4 : x = 0
      OBVIOUS
    <3>2. x # i
      BY <1>5, <3>1 DEF SsiLib!Channels
    <3> QED  BY <1>6, <3>1, <3>2
  <2> HIDE DEF K
  <2> QED  BY <1>6, <2>1, <2>2, SsiRomFrame
<1>12. SsiGives(d, r, e)
  BY <1>7, <1>8, <1>9, <1>10, <1>11, SsiSettlesOne
<1> QED
  BY <1>12 DEF e

LEMMA SsiClearRom ==
  ASSUME NEW d \in SsiDev, NEW r, r.call = "Clear", r.how = <<"ROM">>
  PROVE  SsiGives(d, r, SsiLib!Do(d, r))
<1> DEFINE e == SsiLib!Do(d, r)
           f == [n \in DOMAIN d.rom |-> 0]
           C == {<<"WriteGain", 0>>} \cup {<<"WriteOffset", ch>> : ch \in SsiLib!Channels}
           z == SsiLib!Settles(r)
<1>1. e = [d EXCEPT !.rom = f]
  <2>1. e = SsiLib!ClearCalibrationData(d, {"ROM"})
    BY DEF SsiLib!Do
  <2>2. "RAM" \notin {"ROM"} /\ "ROM" \in {"ROM"}
    OBVIOUS
  <2>3. SsiLib!ClearCalibrationData(d, {"ROM"}) = SsiLib!ClearRom(d)
    BY <2>2 DEF SsiLib!ClearCalibrationData
  <2> QED  BY <2>1, <2>3 DEF SsiLib!ClearRom
<1>2. f \in SsiRoms /\ \A i \in 0..4 : f[i] = 0
  <2>1. DOMAIN d.rom = 0..4
    BY DEF SsiDev, SsiRoms
  <2> QED  BY <2>1 DEF SsiRoms
<1>3. z = [k \in C |-> IF k[1] = "WriteGain" THEN 0 ELSE <<0, 0>>]
  BY DEF SsiLib!Settles
<1> HIDE DEF e, f
<1>4. SsiBut(d, e, {"rom"}) /\ e.rom = f
  BY <1>1, <1>2, SsiPutRom
<1>5. e \in SsiDev /\ e.name = d.name /\ e.reg = d.reg
  BY <1>4 DEF SsiBut
<1>6. SsiFrame(d, e, C)
  <2>1. \A s \in SsiLib!Channels : SsiSameMode(d, e, s)
    BY <1>5, SsiModeOfReg
  <2>2. <<"WriteGain", 0>> \in C /\ \A s \in SsiLib!Channels : <<"WriteOffset", s>> \in C
    OBVIOUS
  <2> HIDE DEF C
  <2> QED  BY <1>4, <2>1, <2>2, SsiRomFrame
<1>7. \A k \in SsiKeys \ C : SsiLib!Answers(e, k) = SsiLib!Answers(d, k)
  BY <1>5, <1>6, SsiKeeps
<1>8. C \subseteq SsiKeys
  BY DEF SsiKeys
<1>9. \A k \in C : SsiLib!Answers(e, k) = {z[k]}
  <2>1. z[<<"WriteGain", 0>>] = 0 /\ \A s \in SsiLib!Channels : z[<<"WriteOffset", s>>] = <<0, 0>>
    BY <1>3
  <2>2. SsiLib!Answers(e, <<"WriteGain", 0>>) = {0}
    <3>1. SsiLib!ushort2double(0) = 0
      BY DEF SsiLib!ushort2double
    <3> QED  BY <1>2, <1>4, <3>1, SsiRomGainIs
  <2>3. \A s \in SsiLib!Channels : SsiLib!Answers(e, <<"WriteOffset", s>>) = {<<0, 0>>}
    <3> TAKE s \in SsiLib!Channels
    <3>1. SsiLib!Answers(e, <<"WriteOffset", s>>) = {SsiRomOffsets(e.rom[s + 1])}
      BY SsiRomOffsetIs
    <3>2. e.rom[s + 1] = 0
      BY <1>2, <1>4 DEF SsiLib!Channels
    <3>3. SsiLib!uchar2double((0 \div 256) % 256) = 0 /\ SsiLib!uchar2double(0 % 256) = 0
      BY DEF SsiLib!uchar2double
    <3>4. SsiRomOffsets(0) = <<0, 0>>
      BY <3>3 DEF SsiRomOffsets
    <3> QED  BY <3>1, <3>2, <3>4
  <2> HIDE DEF z
  <2> QED  BY <2>1, <2>2, <2>3
<1>10. DOMAIN z = C
  BY <1>3
<1> HIDE DEF C
<1>11. SsiGives(d, r, e)
  BY <1>5, <1>7, <1>8, <1>9, <1>10 DEF SsiGives
<1> QED
  BY <1>11 DEF e

\* Both offsets of a channel are zeroed.
SsiZeroed(d, e, ch) ==
  /\ SsiQuiet(d, e) /\ (\A s \in SsiLib!Channels : SsiSameMode(d, e, s))
  /\ \A w \in SsiLib!Wires : e.off[ch][w] = 0
  /\ \A s \in SsiLib!Channels, w \in SsiLib!Wires : s # ch => e.off[s][w] = d.off[s][w]

LEMMA SsiClearOne ==
  ASSUME NEW d \in SsiDev, NEW ch \in SsiLib!Channels, NEW e, e = SsiLib!ClearOffsets(d, ch)
  PROVE  SsiZeroed(d, e, ch)
<1> DEFINE x == SsiLib!SetCalibrationOffset(d, ch, "w3", 0)
           b == SsiLib!double2uchar(0)
<1>1. e = SsiLib!SetCalibrationOffset(x, ch, "w4", 0)
  BY DEF SsiLib!ClearOffsets
<1>2. b = 0 /\ b \in SsiByte
  BY DEF SsiLib!double2uchar, SsiByte
<1>3. PICK v, w, n : v = "w3" /\ w = "w4" /\ n = 0
  OBVIOUS
<1>4. v \in SsiLib!Wires /\ w \in SsiLib!Wires /\ v # w /\ SsiLib!double2uchar(n) \in SsiByte /\ SsiLib!double2uchar(n) = 0
  BY <1>2, <1>3 DEF SsiLib!Wires
<1>5. SsiCorrected(d, x, ch, v, SsiLib!double2uchar(n))
  BY <1>3, <1>4, SsiCorrect
<1> HIDE DEF x
<1>6. x \in SsiDev
  BY <1>5 DEF SsiCorrected, SsiQuiet
<1>7. SsiCorrected(x, e, ch, w, SsiLib!double2uchar(n))
  BY <1>1, <1>3, <1>4, <1>6, SsiCorrect
<1>8. SsiQuiet(d, x) /\ SsiQuiet(x, e)
  BY <1>5, <1>7 DEF SsiCorrected
<1>9. SsiQuiet(d, e)
  BY <1>8, SsiQuietThen
<1>10. e.off[ch][v] = 0 /\ e.off[ch][w] = 0
  BY <1>4, <1>5, <1>7 DEF SsiCorrected
<1>11. \A u \in SsiLib!Wires : u = v \/ u = w
  BY <1>3 DEF SsiLib!Wires
<1>12. \A s \in SsiLib!Channels : SsiSameMode(d, e, s)
  BY <1>5, <1>7 DEF SsiCorrected, SsiSameMode
<1>13. \A s \in SsiLib!Channels, u \in SsiLib!Wires : s # ch => e.off[s][u] = d.off[s][u]
  BY <1>5, <1>7 DEF SsiCorrected
<1> QED
  BY <1>9, <1>10, <1>11, <1>12, <1>13 DEF SsiZeroed

\* One channel after the other.
SsiAllZero(d, e, S) ==
  /\ SsiQuiet(d, e) /\ (\A s \in SsiLib!Channels : SsiSameMode(d, e, s))
  /\ \A s \in S, w \in SsiLib!Wires : e.off[s][w] = 0

LEMMA SsiClearNext ==
  ASSUME NEW d, NEW x, NEW S \in SUBSET SsiLib!Channels, SsiAllZero(d, x, S), x \in SsiDev,
         NEW ch \in SsiLib!Channels, NEW e, e = SsiLib!ClearOffsets(x, ch)
  PROVE  SsiAllZero(d, e, S \cup {ch}) /\ e \in SsiDev
<1>1. SsiZeroed(x, e, ch)
  BY SsiClearOne
<1>2. SsiQuiet(d, e)
  BY <1>1, SsiQuietThen DEF SsiZeroed, SsiAllZero
<1>3. \A s \in SsiLib!Channels : SsiSameMode(d, e, s)
  BY <1>1 DEF SsiZeroed, SsiAllZero, SsiSameMode
<1>4. \A s \in S \cup {ch}, w \in SsiLib!Wires : e.off[s][w] = 0
  BY <1>1 DEF SsiZeroed, SsiAllZero
<1> QED
  BY <1>2, <1>3, <1>4 DEF SsiAllZero, SsiQuiet

LEMMA SsiClearRam ==
  ASSUME NEW d \in SsiDev, NEW r, r.call = "Clear", r.how = <<"RAM">>
  PROVE  SsiGives(d, r, SsiLib!Do(d, r))
<1> DEFINE e == SsiLib!Do(d, r)
           x == SsiLib!SetCalibrationGain(d, 0)
           x0 == SsiLib!ClearOffsets(x, 0)
           x1 == SsiLib!ClearOffsets(x0, 1)
           x2 == SsiLib!ClearOffsets(x1, 2)
           x3 == SsiLib!ClearOffsets(x2, 3)
           C == (SsiLib!Wires \X SsiLib!Channels) \cup {<<"Gain", 0>>}
           B == {<<"byte", i>> : i \in 0..3}
           z == SsiLib!Settles(r)
<1>1. e = x3
  <2>1. e = SsiLib!ClearCalibrationData(d, {"RAM"})
    BY DEF SsiLib!Do
  <2>2. "RAM" \in {"RAM"} /\ "ROM" \notin {"RAM"}
    OBVIOUS
  <2>3. SsiLib!ClearCalibrationData(d, {"RAM"}) = SsiLib!ClearRam(d)
    BY <2>2 DEF SsiLib!ClearCalibrationData
  <2> QED  BY <2>1, <2>3 DEF SsiLib!ClearRam
<1>2. z = [k \in C |-> 0]
  BY DEF SsiLib!Settles
<1>3. SsiLib!Forgets(r) = B
  BY DEF SsiLib!Forgets
<1>4. PICK n \in Int : n = 0
  OBVIOUS
<1>5. SsiSensed(d, x, n + SsiLib!SENSE_DEFAULT)
  <2>1. n + SsiLib!SENSE_DEFAULT = SsiLib!SENSE_DEFAULT
    BY <1>4 DEF SsiLib!SENSE_DEFAULT
  <2>2. SsiLib!Resistance(n + SsiLib!SENSE_DEFAULT)
    BY <2>1 DEF SsiLib!Resistance, SsiLib!SENSE_DEFAULT
  <2>3. x = SsiLib!SetSenseResistor(d, n + SsiLib!SENSE_DEFAULT)
    BY <1>4 DEF SsiLib!SetCalibrationGain
  <2> HIDE DEF x
  <2> QED  BY <2>2, <2>3, SsiSense
<1> HIDE DEF e, x, z
<1>6. x \in SsiDev /\ SsiAllZero(x, x, {})
  BY <1>5 DEF SsiSensed, SsiBut, SsiAllZero, SsiQuiet, SsiSameMode
<1>7. PICK a, b, c, g : a = 0 /\ b = 1 /\ c = 2 /\ g = 3
  OBVIOUS
<1>8. a \in SsiLib!Channels /\ b \in SsiLib!Channels /\ c \in SsiLib!Channels /\ g \in SsiLib!Channels /\ {} \in SUBSET SsiLib!Channels
  BY <1>7 DEF SsiLib!Channels
<1>9. SsiAllZero(x, x0, {} \cup {a}) /\ x0 \in SsiDev
  BY <1>6, <1>7, <1>8, SsiClearNext
<1> HIDE DEF x0
<1>10. SsiAllZero(x, x1, ({} \cup {a}) \cup {b}) /\ x1 \in SsiDev
  <2>1. PICK S : S = {} \cup {a} /\ S \in SUBSET SsiLib!Channels
    BY <1>8
  <2>2. SsiAllZero(x, x0, S) /\ x0 \in SsiDev /\ x1 = SsiLib!ClearOffsets(x0, b)
    BY <1>7, <1>9, <2>1
  <2> HIDE DEF x1
  <2> QED  BY <1>8, <2>1, <2>2, SsiClearNext
<1> HIDE DEF x1
<1>11. SsiAllZero(x, x2, (({} \cup {a}) \cup {b}) \cup {c}) /\ x2 \in SsiDev
  <2>1. PICK S : S = ({} \cup {a}) \cup {b} /\ S \in SUBSET SsiLib!Channels
    BY <1>8
  <2>2. SsiAllZero(x, x1, S) /\ x1 \in SsiDev /\ x2 = SsiLib!ClearOffsets(x1, c)
    BY <1>7, <1>10, <2>1
  <2> HIDE DEF x2
  <2> QED  BY <1>8, <2>1, <2>2, SsiClearNext
<1> HIDE DEF x2
<1>12. SsiAllZero(x, x3, ((({} \cup {a}) \cup {b}) \cup {c}) \cup {g}) /\ x3 \in SsiDev
  <2>1. PICK S : S = (({} \cup {a}) \cup {b}) \cup {c} /\ S \in SUBSET SsiLib!Channels
    BY <1>8
  <2>2. SsiAllZero(x, x2, S) /\ x2 \in SsiDev /\ x3 = SsiLib!ClearOffsets(x2, g)
    BY <1>7, <1>11, <2>1
  <2> HIDE DEF x3
  <2> QED  BY <1>8, <2>1, <2>2, SsiClearNext
<1> HIDE DEF x3
<1>13. ((({} \cup {a}) \cup {b}) \cup {c}) \cup {g} = SsiLib!Channels
  BY <1>7 DEF SsiLib!Channels
<1>14. SsiQuiet(x, e) /\ (\A s \in SsiLib!Channels : SsiSameMode(x, e, s)) /\ \A s \in SsiLib!Channels, w \in SsiLib!Wires : e.off[s][w] = 0
  BY <1>1, <1>12, <1>13 DEF SsiAllZero
<1>15. e \in SsiDev /\ e.name = d.name
  BY <1>5, <1>14 DEF SsiQuiet, SsiSensed, SsiBut
<1>16. SsiFrame(x, e, C)
  <2>1. \A s \in SsiLib!Channels, w \in SsiLib!Wires : <<w, s>> \in C
    OBVIOUS
  <2> HIDE DEF C
  <2> QED  BY <1>6, <1>14, <2>1, SsiQuietFrame
<1>17. SsiLib!Answers(x, <<"Gain", 0>>) = {n} /\ SsiFrame(d, x, {<<"Gain", 0>>} \cup B) /\ x.name = d.name
  BY <1>5, SsiSensedGain
<1>18. SsiLib!Answers(e, <<"Gain", 0>>) = {0}
  <2>1. SsiFrame(x, e, SsiLib!Wires \X SsiLib!Channels)
    <3>1. \A s \in SsiLib!Channels, w \in SsiLib!Wires : <<w, s>> \in SsiLib!Wires \X SsiLib!Channels
      OBVIOUS
    <3> QED  BY <1>6, <1>14, <3>1, SsiQuietFrame
  <2>2. <<"Gain", 0>> \in SsiKeys \ (SsiLib!Wires \X SsiLib!Channels)
    BY DEF SsiKeys, SsiLib!Wires
  <2>3. e.name = x.name
    BY <1>14 DEF SsiQuiet
  <2> QED  BY <1>4, <1>6, <1>15, <1>17, <2>1, <2>2, <2>3, SsiKeeps
<1>19. \A s \in SsiLib!Channels, w \in SsiLib!Wires : SsiLib!Answers(e, <<w, s>>) = {0}
  <2> TAKE s \in SsiLib!Channels, w \in SsiLib!Wires
  <2>1. SsiLib!Answers(e, <<w, s>>) = {SsiLib!uchar2double(e.off[s][w])}
    BY <1>15, SsiOffsetIs
  <2>2. e.off[s][w] = 0
    BY <1>14
  <2>3. SsiLib!uchar2double(0) = 0
    BY DEF SsiLib!uchar2double
  <2> QED  BY <2>1, <2>2, <2>3
<1>20. C \subseteq SsiKeys
  BY DEF SsiKeys, SsiLib!Wires
<1>21. \A k \in C : SsiLib!Answers(e, k) = {0}
  BY <1>18, <1>19
<1>22. \A k \in SsiKeys \ (C \cup B) : SsiLib!Answers(e, k) = SsiLib!Answers(d, k)
  <2> TAKE k \in SsiKeys \ (C \cup B)
  <2>1. SsiLib!Answers(e, k) = SsiLib!Answers(x, k)
    <3>1. k \in SsiKeys \ C /\ e.name = x.name
      BY <1>14 DEF SsiQuiet
    <3> HIDE DEF C
    <3> QED  BY <1>6, <1>15, <1>16, <3>1, SsiKeeps
  <2>2. SsiLib!Answers(x, k) = SsiLib!Answers(d, k)
    <3>1. k \in SsiKeys \ ({<<"Gain", 0>>} \cup B)
      OBVIOUS
    <3> HIDE DEF B
    <3> QED  BY <1>6, <1>17, <3>1, SsiKeeps
  <2> QED  BY <2>1, <2>2
<1> HIDE DEF C, B
<1>23. DOMAIN z = C /\ \A k \in C : z[k] = 0
  BY <1>2
<1>24. SsiGives(d, r, e)
  BY <1>3, <1>15, <1>20, <1>21, <1>22, <1>23 DEF SsiGives, z
<1> QED
  BY <1>24 DEF e

\* A conversion in itself changes nothing that is asked for.
LEMMA SsiStartFrame ==
  ASSUME NEW d \in SsiDev, NEW ch \in SsiLib!Channels, NEW e, e = SsiLib!Start(d, ch)
  PROVE  SsiQuiet(d, e) /\ e.off = d.off /\ (\A s \in SsiLib!Channels : SsiSameMode(d, e, s))
<1>1. SsiBut(d, e, {"reg"}) /\ \A a \in SsiLib!Addresses : a > 500 => e.reg[a] = d.reg[a]
  BY SsiStarted
<1>2. e \in SsiDev /\ e.name = d.name /\ e.raw = d.raw /\ e.rom = d.rom /\ e.off = d.off /\ e.data = d.data
  BY <1>1 DEF SsiBut
<1>3. \A a \in SsiLib!Addresses : a > 524 => e.reg[a] = d.reg[a]
  <2>1. \A a \in SsiLib!Addresses : a > 524 => a > 500
    BY SsiWords
  <2> QED  BY <1>1, <2>1
<1>4. \A s \in SsiLib!Channels : SsiSameMode(d, e, s)
  BY <1>2, <1>3, SsiModeStays
<1>5. \A i \in 0..3 : e.reg[520 + i] = d.reg[520 + i]
  <2> TAKE i \in 0..3
  <2>1. 520 + i \in SsiLib!Addresses /\ 520 + i > 500
    BY SsiWords
  <2> QED  BY <1>1, <2>1
<1> QED
  BY <1>2, <1>4, <1>5 DEF SsiQuiet

\* A status put down for a channel.
LEMMA SsiLastPut ==
  ASSUME NEW d \in SsiDev, NEW ch \in SsiLib!Channels, NEW v \in Int, NEW e, e = SsiLib!set_channeldata_lastStatus(d, ch, v)
  PROVE  /\ SsiBut(d, e, {"data"}) /\ e.data[ch].last = v
         /\ \A s \in SsiLib!Channels : s # ch => e.data[s].last = d.data[s].last
<1> DEFINE g == [d.data[ch] EXCEPT !.last = v]
           f == [d.data EXCEPT ![ch] = g]
<1>1. e = [d EXCEPT !.data = f]
  BY DEF SsiLib!set_channeldata_lastStatus
<1>2. d.data \in SsiDatas /\ d.data[ch] \in SsiData
  BY DEF SsiDev, SsiDatas
<1>3. g \in SsiData /\ g.last = v
  BY <1>2 DEF SsiData
<1> HIDE DEF g
<1>4. f \in SsiDatas /\ f[ch] = g /\ \A s \in SsiLib!Channels : s # ch => f[s] = d.data[s]
  BY <1>2, <1>3 DEF SsiDatas
<1> HIDE DEF f
<1>5. SsiBut(d, e, {"data"}) /\ e.data = f
  BY <1>1, <1>4, SsiPutData
<1> QED
  BY <1>3, <1>4, <1>5

\* A step that leaves all but the channel data leaves all but the states.
LEMMA SsiDataFrame ==
  ASSUME NEW d \in SsiDev, NEW e, SsiBut(d, e, {"data"}), NEW K,
         \A s \in SsiLib!Channels : (e.data[s].last = d.data[s].last) \/ (<<"last", s>> \in K)
  PROVE  SsiFrame(d, e, K)
<1>1. e \in SsiDev /\ e.reg = d.reg /\ e.rom = d.rom /\ e.off = d.off
  BY DEF SsiBut
<1>2. \A s \in SsiLib!Channels : SsiSameMode(d, e, s)
  BY <1>1, SsiModeOfReg
<1> SUFFICES ASSUME NEW c, NEW s, <<c, s>> \in SsiKeys \ K
             PROVE  SsiSameAt(d, e, c, s)
  BY DEF SsiFrame
<1>3. c \in {"SetChannel", "last"} => s \in SsiLib!Channels
  BY DEF SsiKeys
<1>4. SsiWord(e, 520) = SsiWord(d, 520)
  BY <1>1 DEF SsiWord
<1> QED
  BY <1>1, <1>2, <1>3, <1>4 DEF SsiSameAt

LEMMA SsiSingle ==
  ASSUME NEW d \in SsiDev, NEW r, r.call = "Single", NEW ch \in SsiLib!Channels, r.ch = ch
  PROVE  SsiGives(d, r, SsiLib!Do(d, r))
<1> DEFINE e == SsiLib!Do(d, r)
           x == SsiLib!Start(d, ch)
           at == SsiLib!TEMP_CHANNEL[ch + 1]
           K == {<<"last", ch>>} \cup SsiLib!Forgets(r)
<1>1. e = SsiLib!set_channeldata_lastStatus(x, ch, SsiLib!read_word(x, at)[1])
  BY DEF SsiLib!Do, SsiLib!Single, SsiLib!InData, SsiLib!get_temprature
<1>2. SsiLib!Settles(r) = [k \in {<<"last", ch>>} |-> 1]
  BY DEF SsiLib!Settles
<1>3. SsiQuiet(d, x) /\ x.off = d.off /\ (\A s \in SsiLib!Channels : SsiSameMode(d, x, s))
  BY SsiStartFrame
<1>4. SsiWord(x, at) = <<1, d.raw[ch]>>
  BY SsiStarted
<1> HIDE DEF e, x
<1>5. x \in SsiDev /\ x.name = d.name
  BY <1>3 DEF SsiQuiet
<1>6. at \in SsiLib!Words
  BY SsiWords
<1> HIDE DEF at
<1>7. SsiLib!read_word(x, at)[1] = 1
  BY <1>4, <1>5, <1>6, SsiReadWord
<1>8. PICK v \in Int : v = 1
  OBVIOUS
<1>9. e = SsiLib!set_channeldata_lastStatus(x, ch, v)
  BY <1>1, <1>7, <1>8
<1>10. /\ SsiBut(x, e, {"data"}) /\ e.data[ch].last = v
       /\ \A s \in SsiLib!Channels : s # ch => e.data[s].last = x.data[s].last
  BY <1>5, <1>9, SsiLastPut
<1>11. e \in SsiDev /\ e.name = d.name
  BY <1>5, <1>10 DEF SsiBut
<1>12. SsiFrame(d, x, {})
  BY <1>3, <1>5, SsiQuietFrame
<1>13. SsiFrame(x, e, {<<"last", ch>>})
  <2> DEFINE L == {<<"last", ch>>}
  <2>1. \A s \in SsiLib!Channels : (e.data[s].last = x.data[s].last) \/ (<<"last", s>> \in L)
    BY <1>10
  <2> HIDE DEF L
  <2>2. SsiFrame(x, e, L)
    BY <1>5, <1>10, <2>1, SsiDataFrame
  <2> QED  BY <2>2 DEF L
<1>14. \A k \in SsiKeys \ {<<"last", ch>>} : SsiLib!Answers(e, k) = SsiLib!Answers(d, k)
  <2>1. \A k \in SsiKeys \ {} : SsiLib!Answers(x, k) = SsiLib!Answers(d, k)
    BY <1>5, <1>12, SsiKeeps
  <2>2. \A k \in SsiKeys \ {<<"last", ch>>} : SsiLib!Answers(e, k) = SsiLib!Answers(x, k)
    BY <1>5, <1>11, <1>13, SsiKeeps
  <2> QED  BY <2>1, <2>2
<1>15. SsiLib!Answers(e, <<"last", ch>>) = {1}
  BY <1>8, <1>10, SsiLastIs
<1>16. <<"last", ch>> \in SsiKeys
  BY DEF SsiKeys
<1>17. SsiGives(d, r, e)
  BY <1>2, <1>11, <1>14, <1>15, <1>16 DEF SsiGives
<1> QED
  BY <1>17 DEF e

LEMMA SsiGetStatus ==
  ASSUME NEW d \in SsiDev, NEW r, r.call = "GetStatus"
  PROVE  SsiGives(d, r, SsiLib!Do(d, r))
<1> DEFINE e == SsiLib!Do(d, r)
           f == [ch \in SsiLib!Channels |-> [d.data[ch] EXCEPT !.last = 0]]
           C == {<<"last", ch>> : ch \in SsiLib!Channels}
           z == SsiLib!Settles(r)
<1>1. e = [d EXCEPT !.data = f]
  BY DEF SsiLib!Do, SsiLib!InStatus
<1>2. z = [k \in C |-> 0]
  BY DEF SsiLib!Settles
<1>3. f \in SsiDatas /\ \A s \in SsiLib!Channels : f[s].last = 0
  BY DEF SsiDev, SsiDatas, SsiData
<1> HIDE DEF e, f, z
<1>4. SsiBut(d, e, {"data"}) /\ e.data = f
  BY <1>1, <1>3, SsiPutData
<1>5. e \in SsiDev /\ e.name = d.name
  BY <1>4 DEF SsiBut
<1>6. \A k \in SsiKeys \ C : SsiLib!Answers(e, k) = SsiLib!Answers(d, k)
  <2>1. \A s \in SsiLib!Channels : <<"last", s>> \in C
    OBVIOUS
  <2> HIDE DEF C
  <2>2. SsiFrame(d, e, C)
    BY <1>4, <2>1, SsiDataFrame
  <2> QED  BY <1>5, <2>2, SsiKeeps
<1>7. C \subseteq SsiKeys
  BY DEF SsiKeys
<1>8. \A k \in C : SsiLib!Answers(e, k) = {0}
  BY <1>3, <1>4, SsiLastIs
<1> HIDE DEF C
<1>9. DOMAIN z = C /\ \A k \in C : z[k] = 0
  BY <1>2
<1>10. SsiGives(d, r, e)
  BY <1>5, <1>6, <1>7, <1>8, <1>9 DEF SsiGives, z
<1> QED
  BY <1>10 DEF e

LEMMA SsiCommandOutp ==
  ASSUME NEW d \in SsiDev, NEW r, r.call = "CommandOutp"
  PROVE  SsiGives(d, r, SsiLib!Do(d, r))
<1>1. SsiLib!Do(d, r) = d
  BY DEF SsiLib!Do, SsiLib!CommandOutp
<1>2. SsiLib!Settles(r) = <<>>
  BY DEF SsiLib!Settles
<1>3. SsiFrame(d, d, {})
  BY DEF SsiFrame, SsiSameAt, SsiSameMode
<1> QED
  BY <1>1, <1>2, <1>3, SsiSettlesNothing

\* A byte of the resistor's word.
LEMMA SsiDirectOutput ==
  ASSUME NEW d \in SsiDev, NEW r, r.call = "DirectCommandOutput", NEW ch \in SsiLib!Channels, r.ch = ch, NEW n \in Int, r.num[1] = n
  PROVE  SsiGives(d, r, SsiLib!Do(d, r))
<1> DEFINE e == SsiLib!Do(d, r)
           at == 520 + ch
           K == {<<"byte", ch>>} \cup SsiLib!Forgets(r)
<1>1. e = SsiLib!command_4p_write(d, at, n)
  BY DEF SsiLib!Do, SsiLib!DirectCommandOutput, SsiLib!SENSE_RESISTANCE
<1>2. SsiLib!Settles(r) = [k \in {<<"byte", ch>>} |-> n]
  BY DEF SsiLib!Settles
<1>3. SsiLib!Forgets(r) = {<<"Gain", 0>>}
  BY DEF SsiLib!Forgets
<1> HIDE DEF e
<1>4. at \in SsiLib!Addresses /\ at # 0 /\ at \in Int /\ at < 524
  BY SsiWords DEF SsiLib!Channels
<1>5. d.reg \in SsiRegs
  BY DEF SsiDev
<1>6. SsiBut(d, e, {"reg"}) /\ e.reg = [d.reg EXCEPT ![at] = n]
  <2> HIDE DEF at
  <2> QED  BY <1>1, <1>4, SsiWriteByte
<1>7. e.reg[at] = n /\ \A a \in SsiLib!Addresses : a # at => e.reg[a] = d.reg[a]
  <2> HIDE DEF at
  <2> QED  BY <1>4, <1>5, <1>6 DEF SsiRegs
<1>8. e \in SsiDev /\ e.name = d.name
  BY <1>6 DEF SsiBut
<1>9. \A s \in SsiLib!Channels : SsiSameMode(d, e, s)
  <2>1. \A a \in SsiLib!Addresses : a > 524 => a # at
    BY <1>4, SsiWords
  <2>2. \A a \in SsiLib!Addresses : a > 524 => e.reg[a] = d.reg[a]
    BY <1>7, <2>1
  <2> QED  BY <1>8, <2>2, SsiModeStays
<1>10. \A s \in SsiLib!Channels : s # ch => e.reg[520 + s] = d.reg[520 + s]
  <2> TAKE s \in SsiLib!Channels
  <2>1. 520 + s \in SsiLib!Addresses
    BY SsiWords DEF SsiLib!Channels
  <2>2. s # ch => 520 + s # at
    BY DEF SsiLib!Channels
  <2> QED  BY <1>7, <2>1, <2>2
<1>11. SsiLib!Answers(e, <<"byte", ch>>) = {n}
  BY <1>7, <1>8, SsiByteIs
<1>12. SsiFrame(d, e, K)
  <2> SUFFICES ASSUME NEW c, NEW s, <<c, s>> \in SsiKeys \ K
               PROVE  SsiSameAt(d, e, c, s)
    BY DEF SsiFrame
  <2>1. c # "Gain"
    BY <1>3 DEF SsiKeys
  <2>2. c \in {"SetChannel", "byte"} => s \in SsiLib!Channels
    BY DEF SsiKeys
  <2>3. (c = "byte") => (s # ch)
    OBVIOUS
  <2>4. e.rom = d.rom /\ e.off = d.off /\ e.data = d.data
    BY <1>6 DEF SsiBut
  <2> QED  BY <1>9, <1>10, <2>1, <2>2, <2>3, <2>4 DEF SsiSameAt
<1>13. <<"byte", ch>> \in SsiKeys
  BY DEF SsiKeys
<1>14. SsiGives(d, r, e)
  BY <1>2, <1>8, <1>11, <1>12, <1>13, SsiSettlesOne
<1> QED
  BY <1>14 DEF e

\* Every legal call of the sensor library.
LEMMA SsiStep ==
  ASSUME NEW d \in SsiDev, NEW r, SsiLib!Legal(d, r)
  PROVE  SsiGives(d, r, SsiLib!Do(d, r))
<1> DEFINE Goal == SsiGives(d, r, SsiLib!Do(d, r))
<1> SUFFICES Goal
  OBVIOUS
<1> HIDE DEF Goal
<1>1. CASE r.call = "SetChannel" /\ r.ch \in SsiLib!Channels /\ r.how \in SsiLib!Wires \X {"PT", "JPT"}
  <2>1. PICK w \in SsiLib!Wires, j \in {"PT", "JPT"} : r.how = <<w, j>>
    BY <1>1
  <2> QED  BY <1>1, <2>1, SsiSetChannel DEF Goal
<1>2. CASE r.call = "SetOffset" /\ r.ch \in SsiLib!Channels /\ r.how \in {<<w>> : w \in SsiLib!Wires} /\ SsiLib!SignedByte(r.num[1])
  <2>1. PICK w \in SsiLib!Wires : r.how = <<w>>
    BY <1>2
  <2> QED  BY <1>2, <2>1, SsiSetOffset DEF Goal
<1>3. CASE r.call = "GetOffset" /\ r.ch \in SsiLib!Channels /\ r.how \in {<<w>> : w \in SsiLib!Wires}
  <2>1. PICK w \in SsiLib!Wires : r.how = <<w>>
    BY <1>3
  <2> QED  BY <1>3, <2>1, SsiGetOffset DEF Goal
<1>4. CASE r.call = "SetGain" /\ r.num[1] \in Int /\ SsiLib!Resistance(r.num[1] + SsiLib!SENSE_DEFAULT)
  BY <1>4, SsiSetGain DEF Goal
<1>5. CASE r.call \in {"SetGainToUShort", "WriteGain"} /\ SsiLib!SignedShort(r.num[1])
  BY <1>5, SsiSetGainToUShort, SsiWriteGain DEF Goal
<1>6. CASE /\ r.call = "WriteOffset" /\ r.ch \in SsiLib!Channels /\ r.num = <<r.num[1], r.num[2]>>
           /\ SsiLib!SignedByte(r.num[1]) /\ SsiLib!SignedByte(r.num[2])
  <2>1. PICK m, n : m = r.num[1] /\ n = r.num[2]
    OBVIOUS
  <2>2. r.num = <<m, n>> /\ SsiLib!SignedByte(m) /\ SsiLib!SignedByte(n)
    BY <1>6, <2>1
  <2> QED  BY <1>6, <2>2, SsiWriteOffset DEF Goal
<1>7. CASE r.call = "Clear" /\ r.how \in {<<"RAM">>, <<"ROM">>}
  BY <1>7, SsiClearRam, SsiClearRom DEF Goal
<1>8. CASE r.call = "Single" /\ r.ch \in SsiLib!Channels
  BY <1>8, SsiSingle DEF Goal
<1>9. CASE r.call \in {"GetStatus", "Init", "CommandOutp"}
  BY <1>9, SsiGetStatus, SsiInit, SsiCommandOutp DEF Goal
<1>10. CASE r.call = "DirectCommandOutput" /\ r.ch \in 0..3 /\ r.num[1] \in Nat /\ r.num[1] < 256
  <2>1. r.ch \in SsiLib!Channels /\ r.num[1] \in Int
    BY <1>10 DEF SsiLib!Channels
  <2> QED  BY <1>10, <2>1, SsiDirectOutput DEF Goal
<1>11. \/ r.call = "SetChannel" /\ r.ch \in SsiLib!Channels /\ r.how \in SsiLib!Wires \X {"PT", "JPT"}
       \/ r.call = "SetOffset" /\ r.ch \in SsiLib!Channels /\ r.how \in {<<w>> : w \in SsiLib!Wires} /\ SsiLib!SignedByte(r.num[1])
       \/ r.call = "GetOffset" /\ r.ch \in SsiLib!Channels /\ r.how \in {<<w>> : w \in SsiLib!Wires}
       \/ r.call = "SetGain" /\ r.num[1] \in Int /\ SsiLib!Resistance(r.num[1] + SsiLib!SENSE_DEFAULT)
       \/ r.call \in {"SetGainToUShort", "WriteGain"} /\ SsiLib!SignedShort(r.num[1])
       \/ /\ r.call = "WriteOffset" /\ r.ch \in SsiLib!Channels /\ r.num = <<r.num[1], r.num[2]>>
          /\ SsiLib!SignedByte(r.num[1]) /\ SsiLib!SignedByte(r.num[2])
       \/ r.call = "Clear" /\ r.how \in {<<"RAM">>, <<"ROM">>}
       \/ r.call = "Single" /\ r.ch \in SsiLib!Channels
       \/ r.call \in {"GetStatus", "Init", "CommandOutp"}
       \/ r.call = "DirectCommandOutput" /\ r.ch \in 0..3 /\ r.num[1] \in Nat /\ r.num[1] < 256
  BY DEF SsiLib!Legal
<1> QED
  BY <1>1, <1>2, <1>3, <1>4, <1>5, <1>6, <1>7, <1>8, <1>9, <1>10, <1>11

\* The names of the keys a reload keeps are all but the states and the
\* offsets; a new first open keeps the offsets too.
LEMMA SsiReloaded ==
  ASSUME NEW d \in SsiDev, NEW e, e = SsiLib!Reloaded(d)
  PROVE  e \in SsiDev /\ e.name = d.name /\ \A k \in SsiKeys : k[1] \in SsiLib!KeptByReload => SsiLib!Answers(e, k) = SsiLib!Answers(d, k)
<1> DEFINE f == [ch \in SsiLib!Channels |-> [w \in SsiLib!Wires |-> 0]]
<1>1. e = [d EXCEPT !.off = f]
  BY DEF SsiLib!Reloaded, SsiLib!allocate_offset_list
<1>2. f \in SsiOffs
  <2>1. 0 \in SsiByte
    BY DEF SsiByte
  <2> QED  BY <2>1 DEF SsiOffs
<1> HIDE DEF f
<1>3. SsiBut(d, e, {"off"})
  BY <1>1, <1>2, SsiPutOff
<1>4. e \in SsiDev /\ e.name = d.name /\ e.reg = d.reg /\ e.rom = d.rom
  BY <1>3 DEF SsiBut
<1>5. \A s \in SsiLib!Channels : SsiSameMode(d, e, s)
  BY <1>4, SsiModeOfReg
<1>6. SsiWord(e, 520) = SsiWord(d, 520)
  BY <1>4 DEF SsiWord
<1>7. ASSUME NEW k \in SsiKeys, k[1] \in SsiLib!KeptByReload
      PROVE  SsiLib!Answers(e, k) = SsiLib!Answers(d, k)
  <2>1. PICK c, s : k = <<c, s>>
    BY DEF SsiKeys
  <2>2. c \in SsiLib!KeptByReload
    BY <1>7, <2>1
  <2>3. c = "SetChannel" => s \in SsiLib!Channels
    BY <2>1 DEF SsiKeys
  <2>4. SsiSameAt(d, e, c, s)
    BY <1>4, <1>5, <1>6, <2>2, <2>3 DEF SsiSameAt, SsiLib!KeptByReload, SsiLib!Wires
  <2> QED  BY <1>4, <2>1, <2>4, SsiSame
<1> QED
  BY <1>4, <1>7

\* A new first open loses the states of the channels.
LEMMA SsiOpened ==
  ASSUME NEW d \in SsiDev, NEW e, e = SsiLib!Opened(d)
  PROVE  e \in SsiDev /\ e.name = d.name /\ \A k \in SsiKeys : k[1] \in SsiLib!KeptByOpen => SsiLib!Answers(e, k) = SsiLib!Answers(d, k)
<1>1. SsiLib!NoChannelData \in SsiDatas
  BY DEF SsiLib!NoChannelData, SsiDatas, SsiData
<1>2. SsiBut(d, e, {"data"})
  BY <1>1, SsiPutData DEF SsiLib!Opened
<1>3. e \in SsiDev /\ e.name = d.name
  BY <1>2 DEF SsiBut
<1> DEFINE L == {"last"} \X SsiLib!Channels
<1>4. \A s \in SsiLib!Channels : <<"last", s>> \in L
  OBVIOUS
<1>5. SsiFrame(d, e, L)
  <2> HIDE DEF L
  <2> QED  BY <1>2, <1>4, SsiDataFrame
<1>6. \A k \in SsiKeys \ L : SsiLib!Answers(e, k) = SsiLib!Answers(d, k)
  <2> HIDE DEF L
  <2> QED  BY <1>3, <1>5, SsiKeeps
<1>7. \A k \in L : k[1] \notin SsiLib!KeptByOpen
  BY DEF SsiLib!KeptByOpen, SsiLib!KeptByReload
<1> QED
  BY <1>3, <1>6, <1>7

\* What a program is told of the product when it starts.
LEMMA SsiBoot ==
  ASSUME NEW n \in SsiLib!Names, NEW d, d = SsiLib!Boot(n)
  PROVE  /\ d \in SsiDev /\ d.name = n
         /\ DOMAIN SsiLib!Facts(d) \subseteq SsiKeys
         /\ \A k \in DOMAIN SsiLib!Facts(d) : SsiLib!Answers(d, k) = {SsiLib!Facts(d)[k]}
<1> DEFINE p == [x \in {"address", "data", "rw"} |-> IF x = "rw" THEN "read" ELSE 0]
           t == [ch \in SsiLib!Channels |-> <<25600, 16774144, 0, 102400>>[ch + 1]]
           g == [a \in SsiLib!Addresses |-> 0]
           m == [i \in 0..4 |-> 0]
           f == [ch \in SsiLib!Channels |-> [w \in SsiLib!Wires |-> 0]]
           o == SsiLib!NoChannelData
<1>1. o \in SsiDatas
  BY DEF SsiLib!NoChannelData, SsiDatas, SsiData
<1>2. f \in SsiOffs
  <2>1. 0 \in SsiByte
    BY DEF SsiByte
  <2> QED  BY <2>1 DEF SsiOffs
<1>3. p \in SsiPorts /\ g \in SsiRegs /\ m \in SsiRoms
  BY DEF SsiPorts, SsiSent, SsiRegs, SsiRoms
<1>4. t \in SsiRaws
  <2>1. /\ SsiLib!Temperature(25600) = 25600 /\ SsiLib!Temperature(16774144) = -3072
        /\ SsiLib!Temperature(0) = 0 /\ SsiLib!Temperature(102400) = 102400
    BY DEF SsiLib!Temperature
  <2>2. 25600 \in SsiRaw /\ 16774144 \in SsiRaw /\ 0 \in SsiRaw /\ 102400 \in SsiRaw
    BY <2>1 DEF SsiRaw
  <2>3. \A ch \in SsiLib!Channels : ch = 0 \/ ch = 1 \/ ch = 2 \/ ch = 3
    BY DEF SsiLib!Channels
  <2>4. \A ch \in SsiLib!Channels : <<25600, 16774144, 0, 102400>>[ch + 1] \in SsiRaw
    BY <2>2, <2>3
  <2> QED  BY <2>4 DEF SsiRaws
<1>5. d = [data |-> o, name |-> n, off |-> f, port |-> p, raw |-> t, reg |-> g, rom |-> m]
  <2> DEFINE b == [data |-> o, name |-> n, off |-> <<>>, port |-> p, raw |-> t, reg |-> g, rom |-> m]
  <2>1. d = SsiLib!allocate_offset_list(b)
    BY DEF SsiLib!Boot
  <2>2. d = [b EXCEPT !.off = f]
    BY <2>1 DEF SsiLib!allocate_offset_list
  <2> HIDE DEF o, p, t, g, m, f
  <2> QED  BY <2>2
<1> HIDE DEF o, p, t, g, m, f
<1>6. d \in SsiDev /\ d.name = n
  BY <1>1, <1>2, <1>3, <1>4, <1>5 DEF SsiDev
<1>7. DOMAIN SsiLib!Facts(d) = {<<"name", 0>>, <<"channels", 0>>}
  BY DEF SsiLib!Facts
<1>8. SsiLib!Facts(d)[<<"name", 0>>] = d.name /\ SsiLib!Facts(d)[<<"channels", 0>>] = 4
  BY DEF SsiLib!Facts
<1>9. SsiLib!find_sensor_device(d).Name = n /\ SsiLib!find_sensor_device(d).ssiChannel = 4
  BY <1>6 DEF SsiLib!find_sensor_device, SsiLib!Names, SsiLib!cps_ssi_data
<1>10. SsiLib!Answers(d, <<"name", 0>>) = {n}
  BY <1>9 DEF SsiLib!Answers, SsiLib!get_ssi_devname
<1>11. SsiLib!Answers(d, <<"channels", 0>>) = {4}
  BY <1>9 DEF SsiLib!Answers
<1>12. {<<"name", 0>>, <<"channels", 0>>} \subseteq SsiKeys
  BY DEF SsiKeys
<1> QED
  BY <1>6, <1>7, <1>8, <1>10, <1>11, <1>12

-----------------------------------------------------------------------------
(* What programs were told stays so. *)

\* A device of a kind and what was said of it, all of which it answers.
DioFine(d, t) == d \in DioDev /\ DOMAIN t \subseteq DioKeys /\ \A k \in DOMAIN t : DioLib!Answers(d, k) = {t[k]}
CntFine(d, t) == d \in CntDev /\ DOMAIN t \subseteq CntKeys /\ \A k \in DOMAIN t : CntLib!Answers(d, k) = {t[k]}
AioFine(d, t) == d \in AioDev /\ DOMAIN t \subseteq AioKeys /\ \A k \in DOMAIN t : AioLib!Answers(d, k) = {t[k]}
SsiFine(d, t) == d \in SsiDev /\ DOMAIN t \subseteq SsiKeys /\ \A k \in DOMAIN t : SsiLib!Answers(d, k) = {t[k]}

\* The inductive invariant: the device is of one kind, is in a state of that
\* kind and answers what was said, about keys of that kind.
UseInv == DioFine(dev, told) \/ CntFine(dev, told) \/ AioFine(dev, told) \/ SsiFine(dev, told)

\* Whose device it is, by its name.
OnlyDio(n) == n \in DioLib!Names /\ n \notin CntLib!Names /\ n \notin AioLib!Names /\ n \notin SsiLib!Names
OnlyCnt(n) == n \in CntLib!Names /\ n \notin DioLib!Names /\ n \notin AioLib!Names /\ n \notin SsiLib!Names
OnlyAio(n) == n \in AioLib!Names /\ n \notin DioLib!Names /\ n \notin CntLib!Names /\ n \notin SsiLib!Names
OnlySsi(n) == n \in SsiLib!Names /\ n \notin DioLib!Names /\ n \notin CntLib!Names /\ n \notin AioLib!Names

\* No product name is in two tables.
LEMMA OtherNames ==
  /\ CntLib!Names = {"CNT-3202I"} /\ SsiLib!Names = {"CPS-SSI-4P"}
  /\ AioLib!Names \subseteq {"AI-1608LI", "AO-1604LI", "AI-1608ALI", "AO-1604VLI"}
  /\ \A n \in DioLib!Names : n \notin {"CNT-3202I", "CPS-SSI-4P", "AI-1608LI", "AO-1604LI", "AI-1608ALI", "AO-1604VLI"}
<1>1. CntLib!Names = {"CNT-3202I"}
  BY DEF CntLib!Names, CntLib!cps_cnt_data
<1>2. SsiLib!Names = {"CPS-SSI-4P"}
  BY DEF SsiLib!Names, SsiLib!cps_ssi_data
<1>3. AioLib!Names \subseteq {"AI-1608LI", "AO-1604LI", "AI-1608ALI", "AO-1604VLI"}
  BY DEF AioLib!Names, AioLib!cps_aio_data
<1>4. \A n \in DioLib!Names : n \notin {"CNT-3202I", "CPS-SSI-4P", "AI-1608LI", "AO-1604LI", "AI-1608ALI", "AO-1604VLI"}
  BY DEF DioLib!Names, DioLib!cps_dio_data
<1> QED
  BY <1>1, <1>2, <1>3, <1>4

LEMMA OneKind ==
  ASSUME NEW n
  PROVE  /\ n \in DioLib!Names => OnlyDio(n)
         /\ n \in CntLib!Names => OnlyCnt(n)
         /\ n \in AioLib!Names => OnlyAio(n)
         /\ n \in SsiLib!Names => OnlySsi(n)
BY OtherNames DEF OnlyDio, OnlyCnt, OnlyAio, OnlySsi

LEMMA FineNames ==
  ASSUME NEW d, NEW t
  PROVE  /\ DioFine(d, t) => OnlyDio(d.name)
         /\ CntFine(d, t) => OnlyCnt(d.name)
         /\ AioFine(d, t) => OnlyAio(d.name)
         /\ SsiFine(d, t) => OnlySsi(d.name)
<1>1. DioFine(d, t) => d.name \in DioLib!Names
  BY DEF DioFine, DioDev
<1>2. CntFine(d, t) => d.name \in CntLib!Names
  BY DEF CntFine, CntDev
<1>3. AioFine(d, t) => d.name \in AioLib!Names
  BY DEF AioFine, AioDev
<1>4. SsiFine(d, t) => d.name \in SsiLib!Names
  BY DEF SsiFine, SsiDev
<1> QED
  BY <1>1, <1>2, <1>3, <1>4, OneKind

\* What was said holds unless it is said anew or forgotten.
SaidAnew(s, t, F, u) ==
  /\ DOMAIN u = DOMAIN s \cup (DOMAIN t \ F)
  /\ \A k \in DOMAIN s : u[k] = s[k]
  /\ \A k \in DOMAIN u \ DOMAIN s : k \in DOMAIN t \ F /\ u[k] = t[k]

\* What is left of what was said.
SaidLess(t, F, u) == DOMAIN u = DOMAIN t \ F /\ \A k \in DOMAIN u : u[k] = t[k]

LEMMA Forgotten ==
  ASSUME NEW t, NEW F
  PROVE  SaidLess(t, F, Without(t, F))
BY DEF Without, SaidLess

LEMMA SaidLast ==
  ASSUME NEW t, NEW s, NEW F
  PROVE  SaidAnew(s, t, F, Over(s, Without(t, F)))
<1>1. DOMAIN Without(t, F) = DOMAIN t \ F /\ \A k \in DOMAIN t \ F : Without(t, F)[k] = t[k]
  BY DEF Without
<1> QED
  BY <1>1 DEF Over, SaidAnew

\* A call of a library.
LEMMA DioFineStep ==
  ASSUME NEW d, NEW t, DioFine(d, t), NEW r, DioLib!Legal(d, r), NEW e, e = DioLib!Do(d, r),
         NEW u, u = Over(DioLib!Settles(r), Without(t, DioLib!Forgets(r)))
  PROVE  DioFine(e, u)
<1> DEFINE s == DioLib!Settles(r)
           F == DioLib!Forgets(r)
<1>1. d \in DioDev
  BY DEF DioFine
<1>2. /\ e \in DioDev /\ DOMAIN s \subseteq DioKeys
      /\ \A k \in DOMAIN s : DioLib!Answers(e, k) = {s[k]}
      /\ \A k \in DioKeys \ DOMAIN s : DioLib!Answers(e, k) = DioLib!Answers(d, k)
  BY <1>1, DioStep
<1>3. SaidAnew(s, t, F, u)
  BY SaidLast
<1> HIDE DEF s, F
<1> QED
  BY <1>2, <1>3 DEF DioFine, SaidAnew

LEMMA CntFineStep ==
  ASSUME NEW d, NEW t, CntFine(d, t), NEW r, CntLib!Legal(d, r), NEW e, e = CntLib!Do(d, r),
         NEW u, u = Over(CntLib!Settles(d, r), Without(t, CntLib!Forgets(r)))
  PROVE  CntFine(e, u)
<1> DEFINE s == CntLib!Settles(d, r)
           F == CntLib!Forgets(r)
<1>1. d \in CntDev
  BY DEF CntFine
<1>2. /\ e \in CntDev /\ DOMAIN s \subseteq CntKeys
      /\ \A k \in DOMAIN s : CntLib!Answers(e, k) = {s[k]}
      /\ \A k \in CntKeys \ (DOMAIN s \cup F) : CntStays(d, e, k)
  BY <1>1, CntStep DEF CntGives
<1>3. SaidAnew(s, t, F, u)
  BY SaidLast
<1> HIDE DEF s, F
<1> QED
  BY <1>2, <1>3 DEF CntFine, SaidAnew, CntStays

LEMMA AioFineStep ==
  ASSUME NEW d, NEW t, AioFine(d, t), NEW r, AioLib!Legal(d, r), NEW e, e = AioLib!Do(d, r),
         NEW u, u = Over(AioLib!Settles(r), Without(t, AioLib!Forgets(r)))
  PROVE  AioFine(e, u)
<1> DEFINE s == AioLib!Settles(r)
           F == AioLib!Forgets(r)
<1>1. d \in AioDev
  BY DEF AioFine
<1>2. /\ e \in AioDev /\ DOMAIN s \subseteq AioKeys
      /\ \A k \in DOMAIN s : AioLib!Answers(e, k) = {s[k]}
      /\ \A k \in AioKeys \ (DOMAIN s \cup F) : AioLib!Answers(e, k) = AioLib!Answers(d, k)
  BY <1>1, AioStep DEF AioGives
<1>3. SaidAnew(s, t, F, u)
  BY SaidLast
<1> HIDE DEF s, F
<1> QED
  BY <1>2, <1>3 DEF AioFine, SaidAnew

LEMMA SsiFineStep ==
  ASSUME NEW d, NEW t, SsiFine(d, t), NEW r, SsiLib!Legal(d, r), NEW e, e = SsiLib!Do(d, r),
         NEW u, u = Over(SsiLib!Settles(r), Without(t, SsiLib!Forgets(r)))
  PROVE  SsiFine(e, u)
<1> DEFINE s == SsiLib!Settles(r)
           F == SsiLib!Forgets(r)
<1>1. d \in SsiDev
  BY DEF SsiFine
<1>2. /\ e \in SsiDev /\ DOMAIN s \subseteq SsiKeys
      /\ \A k \in DOMAIN s : SsiLib!Answers(e, k) = {s[k]}
      /\ \A k \in SsiKeys \ (DOMAIN s \cup F) : SsiLib!Answers(e, k) = SsiLib!Answers(d, k)
  BY <1>1, SsiStep DEF SsiGives
<1>3. SaidAnew(s, t, F, u)
  BY SaidLast
<1> HIDE DEF s, F
<1> QED
  BY <1>2, <1>3 DEF SsiFine, SaidAnew

\* A reload, and a new first open.
LEMMA CntFineReload ==
  ASSUME NEW d, NEW t, CntFine(d, t), NEW on \in BOOLEAN, NEW e, e = CntLib!Reloaded(d, on),
         NEW u, u = Over(CntLib!Loads(on), Without(t, {k \in DOMAIN t : k[1] \notin CntLib!Kept}))
  PROVE  CntFine(e, u)
<1> DEFINE F == {k \in DOMAIN t : k[1] \notin CntLib!Kept}
           s == CntLib!Loads(on)
<1>1. d \in CntDev
  BY DEF CntFine
<1>2. /\ e \in CntDev /\ DOMAIN s \subseteq CntKeys
      /\ \A k \in DOMAIN s : CntLib!Answers(e, k) = {s[k]}
      /\ \A k \in CntKeys : k[1] \in CntLib!Kept => CntStays(d, e, k)
  BY <1>1, CntReloaded
<1>3. SaidAnew(s, t, F, u)
  BY SaidLast
<1> HIDE DEF s
<1>4. \A k \in DOMAIN u \ DOMAIN s : k \in DOMAIN t /\ k[1] \in CntLib!Kept /\ u[k] = t[k]
  BY <1>3 DEF SaidAnew
<1>5. DOMAIN u = DOMAIN s \cup (DOMAIN t \ F) /\ \A k \in DOMAIN s : u[k] = s[k]
  BY <1>3 DEF SaidAnew
<1> HIDE DEF F
<1>6. DOMAIN t \subseteq CntKeys /\ \A k \in DOMAIN t : CntLib!Answers(d, k) = {t[k]}
  BY DEF CntFine
<1>7. DOMAIN u \subseteq CntKeys
  BY <1>2, <1>5, <1>6
<1>8. ASSUME NEW k \in DOMAIN u PROVE CntLib!Answers(e, k) = {u[k]}
  <2>1. CASE k \in DOMAIN s
    BY <1>2, <1>5, <2>1
  <2>2. CASE k \notin DOMAIN s
    <3>1. k \in DOMAIN t /\ k[1] \in CntLib!Kept /\ u[k] = t[k]
      BY <1>4, <2>2
    <3>2. k \in CntKeys /\ CntLib!Answers(d, k) = {t[k]}
      BY <1>6, <3>1
    <3>3. CntStays(d, e, k)
      BY <1>2, <3>1, <3>2
    <3> QED BY <3>1, <3>2, <3>3 DEF CntStays
  <2> QED BY <2>1, <2>2
<1> QED
  BY <1>2, <1>7, <1>8 DEF CntFine

LEMMA SsiFineReload ==
  ASSUME NEW d, NEW t, SsiFine(d, t), NEW e, e = SsiLib!Reloaded(d),
         NEW u, u = Without(t, {k \in DOMAIN t : k[1] \notin SsiLib!KeptByReload})
  PROVE  SsiFine(e, u)
<1>1. d \in SsiDev
  BY DEF SsiFine
<1>2. e \in SsiDev /\ \A k \in SsiKeys : k[1] \in SsiLib!KeptByReload => SsiLib!Answers(e, k) = SsiLib!Answers(d, k)
  BY <1>1, SsiReloaded
<1> DEFINE F == {k \in DOMAIN t : k[1] \notin SsiLib!KeptByReload}
<1>3. SaidLess(t, F, u)
  BY Forgotten
<1>4. DOMAIN u = {k \in DOMAIN t : k[1] \in SsiLib!KeptByReload} /\ \A k \in DOMAIN u : u[k] = t[k]
  BY <1>3 DEF SaidLess
<1> QED
  BY <1>2, <1>4 DEF SsiFine

LEMMA SsiFineOpen ==
  ASSUME NEW d, NEW t, SsiFine(d, t), NEW e, e = SsiLib!Opened(d),
         NEW u, u = Without(t, {k \in DOMAIN t : k[1] \notin SsiLib!KeptByOpen})
  PROVE  SsiFine(e, u)
<1>1. d \in SsiDev
  BY DEF SsiFine
<1>2. e \in SsiDev /\ \A k \in SsiKeys : k[1] \in SsiLib!KeptByOpen => SsiLib!Answers(e, k) = SsiLib!Answers(d, k)
  BY <1>1, SsiOpened
<1> DEFINE F == {k \in DOMAIN t : k[1] \notin SsiLib!KeptByOpen}
<1>3. SaidLess(t, F, u)
  BY Forgotten
<1>4. DOMAIN u = {k \in DOMAIN t : k[1] \in SsiLib!KeptByOpen} /\ \A k \in DOMAIN u : u[k] = t[k]
  BY <1>3 DEF SaidLess
<1> QED
  BY <1>2, <1>4 DEF SsiFine

\* The invariant holds at first and after every step.
LEMMA UseStarts == UseInit => UseInv
<1> SUFFICES ASSUME UseInit
             PROVE  UseInv
  OBVIOUS
<1>1. PICK name \in Boards : dev = Booted(name)
  BY DEF UseInit
<1>2. told = Facts(dev)
  BY DEF UseInit
<1>3. name \in DioLib!Names \cup CntLib!Names \cup AioLib!Names \cup SsiLib!Names
  BY BoardsAssumption
<1>4. CASE OnlyDio(name)
  <2>1. dev = DioLib!Boot(name)
    BY <1>1, <1>4 DEF Booted, OnlyDio
  <2>2. /\ dev \in DioDev /\ dev.name = name /\ DOMAIN DioLib!Facts(dev) \subseteq DioKeys
        /\ \A k \in DOMAIN DioLib!Facts(dev) : DioLib!Answers(dev, k) = {DioLib!Facts(dev)[k]}
    BY <1>4, <2>1, DioBoot DEF OnlyDio
  <2>3. told = DioLib!Facts(dev)
    BY <1>2, <1>4, <2>2 DEF Facts, OnlyDio
  <2> QED  BY <2>2, <2>3 DEF UseInv, DioFine
<1>5. CASE OnlyCnt(name)
  <2>1. dev = CntLib!Boot(name)
    BY <1>1, <1>5 DEF Booted, OnlyCnt
  <2>2. /\ dev \in CntDev /\ dev.name = name /\ DOMAIN CntLib!Facts(dev) \subseteq CntKeys
        /\ \A k \in DOMAIN CntLib!Facts(dev) : CntLib!Answers(dev, k) = {CntLib!Facts(dev)[k]}
    BY <1>5, <2>1, CntBoot DEF OnlyCnt
  <2>3. told = CntLib!Facts(dev)
    BY <1>2, <1>5, <2>2 DEF Facts, OnlyCnt
  <2> QED  BY <2>2, <2>3 DEF UseInv, CntFine
<1>6. CASE OnlyAio(name)
  <2>1. dev = AioLib!Boot(name)
    BY <1>1, <1>6 DEF Booted, OnlyAio
  <2>2. /\ dev \in AioDev /\ dev.name = name /\ DOMAIN AioLib!Facts(dev) \subseteq AioKeys
        /\ \A k \in DOMAIN AioLib!Facts(dev) : AioLib!Answers(dev, k) = {AioLib!Facts(dev)[k]}
    BY <1>6, <2>1, AioBoot DEF OnlyAio
  <2>3. told = AioLib!Facts(dev)
    BY <1>2, <1>6, <2>2 DEF Facts, OnlyAio
  <2> QED  BY <2>2, <2>3 DEF UseInv, AioFine
<1>7. CASE OnlySsi(name)
  <2>1. dev = SsiLib!Boot(name)
    BY <1>1, <1>7 DEF Booted, OnlySsi
  <2>2. /\ dev \in SsiDev /\ dev.name = name /\ DOMAIN SsiLib!Facts(dev) \subseteq SsiKeys
        /\ \A k \in DOMAIN SsiLib!Facts(dev) : SsiLib!Answers(dev, k) = {SsiLib!Facts(dev)[k]}
    BY <1>7, <2>1, SsiBoot DEF OnlySsi
  <2>3. told = SsiLib!Facts(dev)
    BY <1>2, <1>7, <2>2 DEF Facts, OnlySsi
  <2> QED  BY <2>2, <2>3 DEF UseInv, SsiFine
<1> QED
  BY <1>3, <1>4, <1>5, <1>6, <1>7, OneKind

LEMMA UseStays == UseInv /\ UNCHANGED <<dev, told>> => UseInv'
BY DEF UseInv, DioFine, CntFine, AioFine, SsiFine

LEMMA CallStays ==
  ASSUME UseInv, NEW f \in Files, DioCall(f) \/ CntCall(f) \/ AioCall(f) \/ SsiCall(f)
  PROVE  UseInv'
<1>1. CASE DioCall(f)
  <2>1. DioFine(dev, told)
    BY <1>1, FineNames DEF UseInv, DioCall, IsDio, OnlyCnt, OnlyAio, OnlySsi
  <2>2. PICK r \in DioAsked : DioLib!Legal(dev, r) /\ dev' = DioLib!Do(dev, r) /\ Said(DioLib!Settles(r), DioLib!Forgets(r))
    BY <1>1 DEF DioCall
  <2>3. told' = Over(DioLib!Settles(r), Without(told, DioLib!Forgets(r)))
    BY <2>2 DEF Said
  <2>4. DioFine(dev', told')
    BY <2>1, <2>2, <2>3, DioFineStep
  <2> QED  BY <2>4 DEF UseInv
<1>2. CASE CntCall(f)
  <2>1. CntFine(dev, told)
    BY <1>2, FineNames DEF UseInv, CntCall, IsCnt, OnlyDio, OnlyAio, OnlySsi
  <2>2. PICK r \in CntAsked : CntLib!Legal(dev, r) /\ dev' = CntLib!Do(dev, r) /\ Said(CntLib!Settles(dev, r), CntLib!Forgets(r))
    BY <1>2 DEF CntCall
  <2>3. told' = Over(CntLib!Settles(dev, r), Without(told, CntLib!Forgets(r)))
    BY <2>2 DEF Said
  <2>4. CntFine(dev', told')
    BY <2>1, <2>2, <2>3, CntFineStep
  <2> QED  BY <2>4 DEF UseInv
<1>3. CASE AioCall(f)
  <2>1. AioFine(dev, told)
    BY <1>3, FineNames DEF UseInv, AioCall, IsAio, OnlyDio, OnlyCnt, OnlySsi
  <2>2. PICK r \in AioAsked : AioLib!Legal(dev, r) /\ dev' = AioLib!Do(dev, r) /\ Said(AioLib!Settles(r), AioLib!Forgets(r))
    BY <1>3 DEF AioCall
  <2>3. told' = Over(AioLib!Settles(r), Without(told, AioLib!Forgets(r)))
    BY <2>2 DEF Said
  <2>4. AioFine(dev', told')
    BY <2>1, <2>2, <2>3, AioFineStep
  <2> QED  BY <2>4 DEF UseInv
<1>4. CASE SsiCall(f)
  <2>1. SsiFine(dev, told)
    BY <1>4, FineNames DEF UseInv, SsiCall, IsSsi, OnlyDio, OnlyCnt, OnlyAio
  <2>2. PICK r \in SsiAsked : SsiLib!Legal(dev, r) /\ dev' = SsiLib!Do(dev, r) /\ Said(SsiLib!Settles(r), SsiLib!Forgets(r))
    BY <1>4 DEF SsiCall
  <2>3. told' = Over(SsiLib!Settles(r), Without(told, SsiLib!Forgets(r)))
    BY <2>2 DEF Said
  <2>4. SsiFine(dev', told')
    BY <2>1, <2>2, <2>3, SsiFineStep
  <2> QED  BY <2>4 DEF UseInv
<1> QED
  BY <1>1, <1>2, <1>3, <1>4

LEMMA ReloadStays ==
  ASSUME UseInv, ReloadInUse
  PROVE  UseInv'
<1>1. CASE DioFine(dev, told) \/ AioFine(dev, told)
  <2>1. ~IsCnt /\ ~IsSsi
    BY <1>1, FineNames DEF IsCnt, IsSsi, OnlyDio, OnlyAio
  <2>2. UNCHANGED <<dev, told>>
    BY <2>1 DEF ReloadInUse
  <2> QED  BY <2>2, UseStays
<1>2. CASE CntFine(dev, told)
  <2>1. IsCnt /\ ~IsSsi
    BY <1>2, FineNames DEF IsCnt, IsSsi, OnlyCnt
  <2>2. CntReload
    BY <2>1 DEF ReloadInUse
  <2>3. PICK on \in BOOLEAN : dev' = CntLib!Reloaded(dev, on) /\ Said(CntLib!Loads(on), {k \in DOMAIN told : k[1] \notin CntLib!Kept})
    BY <2>2 DEF CntReload
  <2>4. CntFine(dev', told')
    BY <1>2, <2>3, CntFineReload DEF Said
  <2> QED  BY <2>4 DEF UseInv
<1>3. CASE SsiFine(dev, told)
  <2>1. IsSsi /\ ~IsCnt
    BY <1>3, FineNames DEF IsCnt, IsSsi, OnlySsi
  <2>2. dev' = SsiLib!Reloaded(dev) /\ Keeps(SsiLib!KeptByReload)
    BY <2>1 DEF ReloadInUse
  <2>3. SsiFine(dev', told')
    BY <1>3, <2>2, SsiFineReload DEF Keeps
  <2> QED  BY <2>3 DEF UseInv
<1> QED
  BY <1>1, <1>2, <1>3 DEF UseInv

LEMMA OpenStays ==
  ASSUME UseInv, NEW f \in Files, ContinueInUse(f)
  PROVE  UseInv'
<1>1. CASE IsSsi /\ pc[f] = "mapped" /\ pc'[f] = "open"
  <2>1. SsiFine(dev, told)
    BY <1>1, FineNames DEF UseInv, IsSsi, OnlyDio, OnlyCnt, OnlyAio
  <2>2. dev' = SsiLib!Opened(dev) /\ Keeps(SsiLib!KeptByOpen)
    BY <1>1 DEF ContinueInUse
  <2>3. SsiFine(dev', told')
    BY <2>1, <2>2, SsiFineOpen DEF Keeps
  <2> QED  BY <2>3 DEF UseInv
<1>2. CASE ~(IsSsi /\ pc[f] = "mapped" /\ pc'[f] = "open")
  <2>1. UNCHANGED <<dev, told>>
    BY <1>2 DEF ContinueInUse
  <2> QED  BY <2>1, UseStays
<1> QED
  BY <1>1, <1>2

LEMMA UseStepStays == UseInv /\ [UseNext]_useVars => UseInv'
<1> SUFFICES ASSUME UseInv, [UseNext]_useVars
             PROVE  UseInv'
  OBVIOUS
<1>1. CASE ReloadInUse
  BY <1>1, ReloadStays
<1>2. ASSUME NEW f \in Files, ProgramStep(f)
      PROVE  UseInv'
  <2>1. UNCHANGED <<dev, told>>
    BY <1>2 DEF ProgramStep, use
  <2> QED  BY <2>1, UseStays
<1>3. ASSUME NEW f \in Files, ContinueInUse(f)
      PROVE  UseInv'
  BY <1>3, OpenStays
<1>4. ASSUME NEW f \in Files, DioCall(f) \/ CntCall(f) \/ AioCall(f) \/ SsiCall(f)
      PROVE  UseInv'
  BY <1>4, CallStays
<1>5. CASE UNCHANGED useVars
  <2>1. UNCHANGED <<dev, told>>
    BY <1>5 DEF useVars, use
  <2> QED  BY <2>1, UseStays
<1> QED
  BY <1>1, <1>2, <1>3, <1>4, <1>5 DEF UseNext

\* Whatever was said last of a setting, by the call that set it or by one
\* that is known to change it too, is what the device does and what the getters
\* of its library answer that work: for every board of the four kinds, every
\* number of calls, every set of requests the libraries take, with the
\* parameters of the modules as they are loaded and written, however the node
\* is opened, closed and its module reloaded, first opens at once included.
THEOREM SettingsStay == UseSpec => []SettingsAsAsked
<1>1. ASSUME UseInv
      PROVE  SettingsAsAsked
  <2>1. CASE DioFine(dev, told)
    <3>1. OnlyDio(dev.name)
      BY <2>1, FineNames
    <3> QED  BY <2>1, <3>1 DEF SettingsAsAsked, Answers, IsDio, IsCnt, IsAio, IsSsi, OnlyDio, DioFine
  <2>2. CASE CntFine(dev, told)
    <3>1. OnlyCnt(dev.name)
      BY <2>2, FineNames
    <3> QED  BY <2>2, <3>1 DEF SettingsAsAsked, Answers, IsDio, IsCnt, IsAio, IsSsi, OnlyCnt, CntFine
  <2>3. CASE AioFine(dev, told)
    <3>1. OnlyAio(dev.name)
      BY <2>3, FineNames
    <3> QED  BY <2>3, <3>1 DEF SettingsAsAsked, Answers, IsDio, IsCnt, IsAio, IsSsi, OnlyAio, AioFine
  <2>4. CASE SsiFine(dev, told)
    <3>1. OnlySsi(dev.name)
      BY <2>4, FineNames
    <3> QED  BY <2>4, <3>1 DEF SettingsAsAsked, Answers, IsDio, IsCnt, IsAio, IsSsi, OnlySsi, SsiFine
  <2> QED
    BY <1>1, <2>1, <2>2, <2>3, <2>4 DEF UseInv
<1>2. QED
  BY <1>1, UseStarts, UseStepStays, PTL DEF UseSpec

\* Every use of a node opens and closes it as DeviceFile says, so that what
\* is proved of the node holds while programs use the device.
THEOREM UseOpensAsSpecified == UseSpec => Spec
<1>1. UseInit => Init
  BY DEF UseInit
<1>2. [UseNext]_useVars => [Next]_vars
  <2> SUFFICES ASSUME [UseNext]_useVars
               PROVE  [Next]_vars
    OBVIOUS
  <2>1. CASE ReloadInUse
    BY <2>1 DEF ReloadInUse, Next
  <2>2. ASSUME NEW f \in Files, ProgramStep(f)
        PROVE  Next
    BY <2>2 DEF ProgramStep, Next
  <2>3. ASSUME NEW f \in Files, ContinueInUse(f)
        PROVE  Next
    BY <2>3 DEF ContinueInUse, Next
  <2>4. ASSUME NEW f \in Files, DioCall(f) \/ CntCall(f) \/ AioCall(f) \/ SsiCall(f)
        PROVE  UNCHANGED vars
    BY <2>4 DEF DioCall, CntCall, AioCall, SsiCall, Usable
  <2>5. CASE UNCHANGED useVars
    BY <2>5 DEF useVars
  <2> QED
    BY <2>1, <2>2, <2>3, <2>4, <2>5 DEF UseNext
<1>3. QED
  BY <1>1, <1>2, PTL DEF UseSpec, Spec

\* So while programs use the device no call, handler or mapping is left with a
\* freed structure, the last close gives all back, and the device is attached
\* whenever a file is open.
THEOREM UseIsSafe ==
  ASSUME Serial, Zeroed PROVE UseSpec => []NothingDangles /\ []NothingKept /\ Use!Safe
BY UseOpensAsSpecified, NoDangling, AllGivenBack, KeepsPromise, PTL

=============================================================================
