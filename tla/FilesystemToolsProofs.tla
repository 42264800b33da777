----------------------- MODULE FilesystemToolsProofs ------------------------
(***************************************************************************)
(* Proofs about FilesystemTools, for any disk, workspace root and links,   *)
(* any path arguments and limits, and any number of calls and of changes   *)
(* by other processes to files, directories and links.                     *)
(*                                                                         *)
(* Of where Resolved leads only DiskAssumption is used: the disk knows the *)
(* place, and no link is on the way to it.  The workspace is confined by   *)
(* the check on the result alone.                                          *)
(***************************************************************************)
EXTENDS FilesystemTools, SequenceTheorems, TLAPS

-----------------------------------------------------------------------------
(* Locations.                                                              *)

(* The directories a location inside the root is in are the root, those    *)
(* below it, and those the root itself is in.                              *)
LEMMA ParentsOfInside ==
  ASSUME NEW r \in Seq(STRING), NEW t \in Seq(STRING), IsPrefix(r, t), NEW l \in Parents(t)
  PROVE  l \in Parents(r) \/ IsPrefix(r, l)
<1>1. PICK i \in 0..(Len(t) - 1) : l = SubSeq(t, 1, i)
  BY DEF Parents
<1>2. /\ Len(r) \in Nat /\ Len(t) \in Nat /\ Len(r) <= Len(t)
      /\ SubSeq(r, 1, Len(r)) = SubSeq(t, 1, Len(r))
  BY LenProperties DEF IsPrefix
<1>3. \A j \in 1..Len(r) : r[j] = t[j]
  <2>1. ASSUME NEW j \in 1..Len(r) PROVE r[j] = t[j]
    <3>1. SubSeq(r, 1, Len(r))[j] = r[j] /\ SubSeq(t, 1, Len(r))[j] = t[j]
      BY <1>2, SubSeqProperties
    <3> QED BY <1>2, <3>1
  <2> QED BY <2>1
<1>4. l \in Seq(STRING) /\ Len(l) = i /\ \A j \in 1..i : l[j] = t[j]
  BY <1>1, <1>2, SubSeqProperties
<1>5. CASE i < Len(r)
  <2>1. /\ SubSeq(r, 1, i) \in Seq(STRING) /\ Len(SubSeq(r, 1, i)) = i
        /\ \A j \in 1..i : SubSeq(r, 1, i)[j] = r[j]
    BY <1>2, <1>5, SubSeqProperties
  <2>2. \A j \in 1..i : SubSeq(r, 1, i)[j] = l[j]
    BY <1>2, <1>3, <1>4, <1>5, <2>1
  <2>3. SubSeq(r, 1, i) = l
    BY <1>4, <2>1, <2>2, SeqEqual
  <2> QED BY <1>2, <1>5, <2>3 DEF Parents
<1>6. CASE Len(r) <= i
  <2>1. /\ SubSeq(l, 1, Len(r)) \in Seq(STRING) /\ Len(SubSeq(l, 1, Len(r))) = Len(r)
        /\ \A j \in 1..Len(r) : SubSeq(l, 1, Len(r))[j] = l[j]
    BY <1>2, <1>4, <1>6, SubSeqProperties
  <2>2. SubSeq(r, 1, Len(r)) = r
    BY <1>2, SubSeqFull
  <2>3. \A j \in 1..Len(r) : SubSeq(l, 1, Len(r))[j] = r[j]
    BY <1>2, <1>3, <1>4, <1>6, <2>1
  <2>4. SubSeq(l, 1, Len(r)) = r
    BY <2>1, <2>3, SeqEqual
  <2> QED BY <1>4, <1>6, <2>2, <2>4 DEF IsPrefix
<1> QED BY <1>2, <1>5, <1>6

(* The check on the resolved path. *)
LEMMA AllowedInside ==
  ASSUME NEW t \in Locations, Allowed(t)
  PROVE  IsPrefix(Root, t)
<1>1. Root \in Seq(STRING)
  BY RootAssumption, DiskAssumption
<1>2. IsPrefix(Root, Root)
  BY <1>1, LenProperties DEF IsPrefix
<1> QED BY <1>2 DEF Allowed, InsideText, IsStrictPrefix

-----------------------------------------------------------------------------
(* The types: a call's fields, the disk, and that the log says which call  *)
(* each of its entries is about.                                           *)

ToolCalls ==
  [phase : {"idle", "approving", "resolving", "checking", "reading", "writing", "done"},
   tool : Tools, raw : RawPaths \cup {Idle.raw}, content : Contents \cup {Idle.content},
   target : Locations \cup {<<>>}, output : Int]

(* Wherever links lead, the target and the directories on its way are      *)
(* somewhere on the disk.                                                  *)
TargetPhases == {"checking", "reading", "writing", "done"}
TargetKnown(t) ==
  \A l \in OnWay(t) : l \in Locations /\ \A n \in LinkMaps : Walk(n, l) \in Locations

TypeInv ==
  /\ call \in ToolCalls
  /\ disk \in [Locations -> Int]
  /\ links \in LinkMaps
  /\ moved \in BOOLEAN /\ edited \in BOOLEAN
  /\ calls \in Nat
  /\ call.phase \in TargetPhases => TargetKnown(call.target)

LEMMA TargetPlaces ==
  ASSUME TypeInv, call.phase \in TargetPhases
  PROVE  /\ call.target \in Locations /\ Place(call.target) \in Locations
         /\ \A l \in Parents(call.target) : l \in Locations /\ Place(l) \in Locations
BY DEF TypeInv, TargetKnown, OnWay, Place

(* What the check is made on: a location with no links on the way to it. *)
LEMMA ResolvedPlace ==
  ASSUME NEW m \in LinkMaps, NEW raw \in RawPaths
  PROVE  /\ TargetKnown(Resolved(m, raw)) /\ Resolved(m, raw) \in Locations
         /\ \A l \in OnWay(Resolved(m, raw)) : Walk(m, l) = l
<1> DEFINE t == Resolved(m, raw)
<1>1. \A l \in OnWay(t) :
        l \in Locations /\ Walk(m, l) = l /\ \A n \in LinkMaps : Walk(n, l) \in Locations
  BY DiskAssumption
<1>2. t \in OnWay(t)
  BY DEF OnWay
<1> HIDE DEF t
<1>3. TargetKnown(t)
  BY <1>1 DEF TargetKnown
<1> QED BY <1>1, <1>2, <1>3 DEF t

LEMMA IdleFields ==
  /\ Idle \in ToolCalls
  /\ Idle.phase = "idle"
BY DEF Idle, ToolCalls, Tools

(* What a new call starts with. *)
LEMMA NewCallFields ==
  ASSUME NEW tool \in Tools, NEW raw \in RawPaths, NEW content \in Contents,
         call' = [Idle EXCEPT !.phase = IF tool \in Gated THEN "approving" ELSE "resolving",
                              !.tool = tool, !.raw = raw, !.content = content]
  PROVE  /\ call' \in ToolCalls
         /\ call'.phase \in {"approving", "resolving"} /\ call'.content = content
<1>1. PICK phase \in {"approving", "resolving"} :
        phase = IF tool \in Gated THEN "approving" ELSE "resolving"
  OBVIOUS
<1>2. call' = [phase |-> phase, tool |-> tool, raw |-> raw, content |-> content,
               target |-> <<>>, output |-> -1]
  BY <1>1 DEF Idle
<1>3. phase \in {"idle", "approving", "resolving", "checking", "reading", "writing", "done"}
  BY <1>1
<1>4. call' \in ToolCalls
  BY <1>2, <1>3 DEF ToolCalls
<1> QED BY <1>1, <1>2, <1>4

LEMMA TypeInvStep ==
  ASSUME TypeInv, [ToolsNext]_toolVars
  PROVE  TypeInv'
<1>a. ASSUME NEW phase \in TargetPhases, call.phase \in TargetPhases,
             call' \in {Idle, [call EXCEPT !.phase = phase]}
      PROVE  call' \in ToolCalls /\ (call'.phase \in TargetPhases => TargetKnown(call'.target))
  <2>1. CASE call' = Idle
    BY <2>1, IdleFields DEF TargetPhases
  <2>2. CASE call' = [call EXCEPT !.phase = phase]
    <3>1. call' \in ToolCalls /\ call'.target = call.target
      BY <2>2 DEF TypeInv, ToolCalls, TargetPhases
    <3> QED BY <1>a, <3>1 DEF TypeInv
  <2> QED BY <1>a, <2>1, <2>2
<1>1. CASE RequestTool
  <2>1. call' \in ToolCalls /\ call'.phase \in {"approving", "resolving"}
    BY <1>1, NewCallFields DEF RequestTool
  <2> QED BY <1>1, <2>1 DEF TypeInv, RequestTool, TargetPhases
<1>2. CASE RequestApproval
  BY <1>2, IdleFields DEF TypeInv, RequestApproval, ToolCalls, TargetPhases
<1>3. CASE Resolve
  <2>1. call.raw \in RawPaths \/ call.raw.names = <<>>
    BY DEF TypeInv, ToolCalls, Idle
  <2> DEFINE target == Resolved(links, call.raw)
  <2>2. call.raw \in RawPaths => TargetKnown(target) /\ target \in Locations
    BY ResolvedPlace DEF TypeInv
  <2>3. \/ call' = Idle
        \/ /\ TargetKnown(target) /\ target \in Locations
           /\ call' = [call EXCEPT !.phase = "checking", !.target = target]
    BY <1>3, <2>1, <2>2 DEF Resolve, Fail
  <2> HIDE DEF target
  <2>4. call' \in ToolCalls /\ (call'.phase # "idle" => TargetKnown(call'.target))
    BY <2>3, IdleFields DEF TypeInv, ToolCalls
  <2>5. call'.phase \in TargetPhases => TargetKnown(call'.target)
    BY <2>4 DEF TargetPhases
  <2> QED BY <1>3, <2>4, <2>5 DEF TypeInv, TargetKnown, Resolve
<1>4. CASE List
  <2>1. call' \in {Idle, [call EXCEPT !.phase = "done"]} /\ call.phase = "checking"
    BY <1>4 DEF List, Check, Complete, Fail
  <2> QED BY <1>4, <1>a, <2>1 DEF TypeInv, List, TargetKnown, TargetPhases
<1>5. CASE CheckRead
  <2>1. call' \in {Idle, [call EXCEPT !.phase = "reading"]} /\ call.phase = "checking"
    BY <1>5 DEF CheckRead, Check, Fail
  <2> QED BY <1>5, <1>a, <2>1 DEF TypeInv, CheckRead, TargetKnown, TargetPhases
<1>6. CASE Read
  <2> DEFINE size == disk[Place(call.target)]
  <2>1. call' \in {Idle, [call EXCEPT !.phase = "done", !.output = size]} /\ call.phase = "reading"
    BY <1>6 DEF Read, Fail
  <2>2. size \in Int
    BY <2>1, TargetPlaces DEF TypeInv, TargetPhases
  <2> HIDE DEF size
  <2>3. /\ call' \in ToolCalls
        /\ call'.phase = "idle" \/ (call'.phase = "done" /\ call'.target = call.target)
    BY <2>1, <2>2, IdleFields DEF TypeInv, ToolCalls
  <2>4. call'.phase \in TargetPhases => TargetKnown(call'.target)
    BY <2>1, <2>3 DEF TypeInv, TargetPhases
  <2> QED BY <1>6, <2>3, <2>4 DEF TypeInv, TargetKnown, Read
<1>7. CASE MakeParents
  <2>1. call' \in {Idle, [call EXCEPT !.phase = "writing"]} /\ call.phase = "checking"
    BY <1>7 DEF MakeParents, Check, Fail
  <2>2. disk' \in [Locations -> Int]
    BY <1>7 DEF TypeInv, MakeParents, Dir
  <2> QED BY <1>7, <1>a, <2>1, <2>2 DEF TypeInv, MakeParents, TargetKnown, TargetPhases
<1>8. CASE Write
  <2>1. call' \in {Idle, [call EXCEPT !.phase = "done"]} /\ call.phase = "writing"
    BY <1>8 DEF Write, Complete, Fail
  <2>2. call.content.chars \in Nat
    BY ContentsAssumption DEF TypeInv, ToolCalls, Idle, Text
  <2>3. disk' \in [Locations -> Int]
    BY <1>8, <2>2 DEF TypeInv, Write
  <2> QED BY <1>8, <1>a, <2>1, <2>3 DEF TypeInv, Write, TargetKnown, TargetPhases
<1>9. CASE Return
  BY <1>9, IdleFields DEF TypeInv, Return, TargetPhases
<1>10. CASE Edit
  <2>1. disk' \in [Locations -> Int]
    BY <1>10, LimitsAssumption DEF TypeInv, Edit, Absent, Dir
  <2>2. edited' \in BOOLEAN
    BY <1>10 DEF TypeInv, Edit
  <2> QED BY <1>10, <2>1, <2>2 DEF TypeInv, TargetKnown, Edit, External
<1>11. CASE Relink
  <2>1. links' \in LinkMaps /\ moved' \in BOOLEAN /\ edited' \in BOOLEAN
    BY <1>11 DEF TypeInv, Relink
  <2> QED BY <1>11, <2>1 DEF TypeInv, TargetKnown, Relink, External
<1>12. CASE UNCHANGED toolVars
  BY <1>12 DEF TypeInv, TargetKnown, toolVars
<1> QED BY <1>1, <1>2, <1>3, <1>4, <1>5, <1>6, <1>7, <1>8, <1>9, <1>10, <1>11, <1>12
        DEF ToolsNext, ToolStep

LEMMA TypeInvInit ==
  ASSUME ToolsInit
  PROVE  TypeInv
<1>1. Disk0 \in [Locations -> Int]
  BY DiskAssumption DEF Dir, Absent
<1> QED BY <1>1, IdleFields DEF ToolsInit, TypeInv, TargetPhases

-----------------------------------------------------------------------------
(* Confinement: the target of a call lies inside the root once it has been *)
(* checked, and until somebody changes the links on its way it is where    *)
(* the call finds it.  The root stays a directory, with those it is in, so *)
(* that no call finds one of them missing.                                 *)

RootStands == \A l \in OnWay(Root) : l \in Locations /\ disk[l] = Dir
InPlace == \A l \in OnWay(call.target) : Walk(links, l) = l

ConfinedInv ==
  /\ call.phase \in TargetPhases => IsPrefix(Root, call.target) /\ (moved \/ InPlace)
  /\ RootStands
  /\ ConfinedUnlessRelinked

(* A change of the disk that leaves the root and what it is in alone. *)
LEMMA RootStays ==
  ASSUME RootStands, \A l \in OnWay(Root) : disk'[l] = disk[l]
  PROVE  RootStands'
BY DEF RootStands

LEMMA ConfinedInvStep ==
  ASSUME TypeInv, ConfinedInv, [ToolsNext]_toolVars
  PROVE  ConfinedInv'
<1>a. ASSUME disk' = disk PROVE RootStands'
  BY <1>a DEF ConfinedInv, RootStands
<1>b. ASSUME touched' = touched, moved' = moved PROVE ConfinedUnlessRelinked'
  BY <1>b DEF ConfinedInv, ConfinedUnlessRelinked
<1>c. ASSUME touched' = touched \cup {Place(call.target)}, moved' = moved,
             call.phase \in TargetPhases
      PROVE  ConfinedUnlessRelinked'
  <2>1. moved \/ (Place(call.target) = call.target /\ IsPrefix(Root, call.target))
    BY <1>c DEF ConfinedInv, InPlace, OnWay, Place
  <2> QED BY <1>c, <2>1 DEF ConfinedInv, ConfinedUnlessRelinked
<1>d. ASSUME call' = Idle PROVE call'.phase \notin TargetPhases
  BY <1>d, IdleFields DEF TargetPhases
(* A call goes on, or ends, while the links stay. *)
<1>e. ASSUME NEW phase \in TargetPhases, call.phase \in TargetPhases, links' = links,
             moved' = moved, call' = Idle \/ (call'.phase = phase /\ call'.target = call.target)
      PROVE  call'.phase \in TargetPhases =>
               IsPrefix(Root, call'.target) /\ (moved' \/ InPlace')
  <2>1. CASE call' = Idle
    BY <1>d, <2>1
  <2>2. CASE call'.target = call.target
    BY <1>e, <2>2 DEF ConfinedInv, InPlace
  <2> QED BY <1>e, <2>1, <2>2
<1>f. ASSUME NEW phase, call' = [call EXCEPT !.phase = phase]
      PROVE  call'.phase = phase /\ call'.target = call.target
  BY <1>f DEF TypeInv, ToolCalls
<1>1. CASE RequestTool
  <2>1. call'.phase \notin TargetPhases
    BY <1>1, NewCallFields DEF RequestTool, TargetPhases
  <2> QED BY <1>1, <1>a, <1>b, <2>1 DEF ConfinedInv, RequestTool
<1>2. CASE RequestApproval
  <2>1. call'.phase \notin TargetPhases
    BY <1>2, <1>d, <1>f DEF RequestApproval, TargetPhases
  <2> QED BY <1>2, <1>a, <1>b, <2>1 DEF ConfinedInv, RequestApproval
<1>3. CASE Resolve
  <2> DEFINE target == Resolved(links, call.raw)
  <2>1. \/ call' = Idle
        \/ /\ call.raw.names # <<>> /\ Allowed(target)
           /\ call' = [call EXCEPT !.phase = "checking", !.target = target]
    BY <1>3 DEF Resolve, Fail
  <2>2. call.raw.names # <<>> =>
          target \in Locations /\ \A l \in OnWay(target) : Walk(links, l) = l
    BY ResolvedPlace DEF TypeInv, ToolCalls, Idle
  <2>3. links' = links
    BY <1>3 DEF Resolve
  <2> HIDE DEF target
  <2>4. CASE call' = [call EXCEPT !.phase = "checking", !.target = target] /\ call' # Idle
    <3>1. call'.target = target
      BY <2>4 DEF TypeInv, ToolCalls
    <3>2. IsPrefix(Root, target)
      BY <2>1, <2>2, <2>4, AllowedInside
    <3>3. InPlace'
      BY <2>1, <2>2, <2>3, <2>4, <3>1 DEF InPlace
    <3> QED BY <1>3, <1>a, <3>1, <3>2, <3>3 DEF ConfinedInv, ConfinedUnlessRelinked, Resolve
  <2>5. CASE call' = Idle
    BY <1>3, <1>a, <1>d, <2>5 DEF ConfinedInv, ConfinedUnlessRelinked, Resolve
  <2> QED BY <2>1, <2>4, <2>5
<1>4. CASE List
  <2>1. /\ call' \in {Idle, [call EXCEPT !.phase = "done"]} /\ call.phase \in TargetPhases
        /\ touched' \in {touched, touched \cup {Place(call.target)}}
        /\ disk' = disk /\ links' = links /\ moved' = moved
    BY <1>4 DEF List, Check, Complete, Fail, TargetPhases
  <2>2. call' = Idle \/ (call'.phase = "done" /\ call'.target = call.target)
    BY <1>f, <2>1
  <2>3. "done" \in TargetPhases
    BY DEF TargetPhases
  <2> QED BY <1>a, <1>b, <1>c, <1>e, <2>1, <2>2, <2>3 DEF ConfinedInv
<1>5. CASE CheckRead
  <2>1. /\ call' \in {Idle, [call EXCEPT !.phase = "reading"]} /\ call.phase \in TargetPhases
        /\ touched' = touched /\ disk' = disk /\ links' = links /\ moved' = moved
    BY <1>5 DEF CheckRead, Check, Fail, TargetPhases
  <2>2. call' = Idle \/ (call'.phase = "reading" /\ call'.target = call.target)
    BY <1>f, <2>1
  <2>3. "reading" \in TargetPhases
    BY DEF TargetPhases
  <2> QED BY <1>a, <1>b, <1>e, <2>1, <2>2, <2>3 DEF ConfinedInv
<1>6. CASE Read
  <2> DEFINE size == disk[Place(call.target)]
  <2>1. /\ call' \in {Idle, [call EXCEPT !.phase = "done", !.output = size]}
        /\ call.phase \in TargetPhases
        /\ touched' \in {touched, touched \cup {Place(call.target)}}
        /\ disk' = disk /\ links' = links /\ moved' = moved
    BY <1>6 DEF Read, Fail, TargetPhases
  <2> HIDE DEF size
  <2>2. call' = Idle \/ (call'.phase = "done" /\ call'.target = call.target)
    BY <2>1 DEF TypeInv, ToolCalls
  <2>3. "done" \in TargetPhases
    BY DEF TargetPhases
  <2> QED BY <1>a, <1>b, <1>c, <1>e, <2>1, <2>2, <2>3 DEF ConfinedInv
<1>7. CASE MakeParents
  <2>1. /\ call' \in {Idle, [call EXCEPT !.phase = "writing"]} /\ call.phase \in TargetPhases
        /\ links' = links /\ moved' = moved
    BY <1>7 DEF MakeParents, Check, Fail, TargetPhases
  <2> DEFINE missing == {l \in {Place(p) : p \in Parents(call.target)} : disk[l] = Absent}
  <2>2. \/ disk' = disk /\ touched' = touched
        \/ /\ disk' = [l \in Locations |-> IF l \in missing THEN Dir ELSE disk[l]]
           /\ touched' = touched \cup missing
    BY <1>7 DEF MakeParents
  <2>3. ASSUME NEW l \in missing, ~moved PROVE IsPrefix(Root, l)
    <3>1. PICK p \in Parents(call.target) : l = Place(p)
      OBVIOUS
    <3>2. l = p
      BY <2>1, <2>3, <3>1 DEF ConfinedInv, InPlace, OnWay, Place
    <3>3. Root \in Seq(STRING) /\ call.target \in Seq(STRING) /\ IsPrefix(Root, call.target)
      BY <2>1, TargetPlaces, RootAssumption, DiskAssumption DEF ConfinedInv
    <3>4. l \notin Parents(Root)
      BY DEF ConfinedInv, RootStands, OnWay, Dir, Absent
    <3> QED BY <3>2, <3>3, <3>4, ParentsOfInside
  <2>4. ConfinedUnlessRelinked'
    <3>1. CASE moved
      BY <2>1, <3>1 DEF ConfinedUnlessRelinked
    <3>2. CASE ~moved
      BY <1>b, <2>1, <2>2, <2>3, <3>2 DEF ConfinedInv, ConfinedUnlessRelinked
    <3> QED BY <3>1, <3>2
  <2>5. RootStands'
    <3>1. \A l \in OnWay(Root) : l \in Locations /\ disk[l] = Dir
      BY DEF ConfinedInv, RootStands
    <3>2. \A l \in missing : disk[l] = Absent
      OBVIOUS
    <3> HIDE DEF missing
    <3>3. \A l \in OnWay(Root) : disk'[l] = disk[l]
      BY <2>2, <3>1, <3>2 DEF Dir, Absent
    <3> QED BY <3>3, RootStays DEF ConfinedInv
  <2>6. call' = Idle \/ (call'.phase = "writing" /\ call'.target = call.target)
    BY <1>f, <2>1
  <2>7. "writing" \in TargetPhases
    BY DEF TargetPhases
  <2> QED BY <1>e, <2>1, <2>4, <2>5, <2>6, <2>7 DEF ConfinedInv
<1>8. CASE Write
  <2> DEFINE place == Place(call.target)
  <2>1. /\ call' \in {Idle, [call EXCEPT !.phase = "done"]} /\ call.phase \in TargetPhases
        /\ touched' \in {touched, touched \cup {place}}
        /\ links' = links /\ moved' = moved
    BY <1>8 DEF Write, Complete, Fail, TargetPhases
  <2>2. \/ disk' = disk
        \/ disk[place] # Dir /\ \E size : disk' = [disk EXCEPT ![place] = size]
    BY <1>8 DEF Write
  <2>3. RootStands'
    <3> HIDE DEF place
    <3>1. \A l \in OnWay(Root) : disk'[l] = disk[l]
      BY <2>2 DEF ConfinedInv, RootStands, TypeInv
    <3> QED BY <3>1, RootStays DEF ConfinedInv
  <2>4. call' = Idle \/ (call'.phase = "done" /\ call'.target = call.target)
    BY <1>f, <2>1
  <2>5. "done" \in TargetPhases
    BY DEF TargetPhases
  <2> QED BY <1>b, <1>c, <1>e, <2>1, <2>3, <2>4, <2>5 DEF ConfinedInv
<1>9. CASE Return
  BY <1>9, <1>a, <1>b, <1>d DEF ConfinedInv, Return
<1>10. CASE Edit
  <2>1. \A l \in OnWay(Root) : disk'[l] = disk[l]
    BY <1>10 DEF Edit, TypeInv
  <2>2. RootStands'
    BY <2>1, RootStays DEF ConfinedInv
  <2>3. call' = call /\ links' = links /\ moved' = moved /\ touched' = touched
    BY <1>10 DEF Edit
  <2> QED BY <1>b, <2>2, <2>3 DEF ConfinedInv, InPlace
<1>11. CASE Relink
  <2>1. PICK m \in LinkMaps :
          /\ links' = m
          /\ moved' = (moved \/ \E l \in OnWay(call.target) : Walk(m, l) # Place(l))
    BY <1>11 DEF Relink
  <2>2. call' = call /\ touched' = touched /\ disk' = disk
    BY <1>11 DEF Relink
  <2>3. moved => moved'
    BY <2>1
  <2>4. call.phase \in TargetPhases => moved' \/ InPlace'
    <3>1. CASE moved'
      BY <3>1
    <3>2. CASE ~moved'
      <4>1. \A l \in OnWay(call.target) : Walk(links', l) = Walk(links, l)
        BY <2>1, <3>2 DEF Place
      <4> QED BY <2>2, <2>3, <3>2, <4>1 DEF ConfinedInv, InPlace
    <3> QED BY <3>1, <3>2
  <2>5. ConfinedUnlessRelinked'
    BY <2>2, <2>3 DEF ConfinedInv, ConfinedUnlessRelinked
  <2> QED BY <1>a, <2>2, <2>4, <2>5 DEF ConfinedInv
<1>12. CASE UNCHANGED toolVars
  BY <1>12, <1>a, <1>b DEF ConfinedInv, InPlace, toolVars
<1> QED BY <1>1, <1>2, <1>3, <1>4, <1>5, <1>6, <1>7, <1>8, <1>9, <1>10, <1>11, <1>12
        DEF ToolsNext, ToolStep

(* Whatever path an agent asks for and wherever links and dots lead, no    *)
(* call reads, lists, creates or writes a location outside the workspace   *)
(* root, unless another process changes a link on the way to the target    *)
(* after the path was checked.  Changes to files, to other directories and *)
(* to other links do not matter, nor do those made before the check.       *)
THEOREM WorkspaceConfined == ToolsSpec => []ConfinedUnlessRelinked
<1>1. ToolsInit => TypeInv /\ ConfinedInv
  <2>1. \A l \in OnWay(Root) : l \in Locations /\ Disk0[l] = Dir
    BY RootAssumption DEF OnWay
  <2> QED BY <2>1, TypeInvInit, IdleFields
         DEF ToolsInit, ConfinedInv, RootStands, ConfinedUnlessRelinked, TargetPhases
<1>2. TypeInv /\ ConfinedInv /\ [ToolsNext]_toolVars => (TypeInv /\ ConfinedInv)'
  BY TypeInvStep, ConfinedInvStep
<1>3. ConfinedInv => ConfinedUnlessRelinked
  BY DEF ConfinedInv
<1> QED BY <1>1, <1>2, <1>3, PTL DEF ToolsSpec

-----------------------------------------------------------------------------
(* The read limit: between the size check and the read the file grows only *)
(* by somebody else's hand.  A call in progress has not read anything yet. *)

LimitInv ==
  /\ call.phase = "reading" /\ disk[Place(call.target)] > MaxRead => edited
  /\ call.phase # "done" => call.output = -1
  /\ ReadsWithinLimit

LEMMA LimitInvStep ==
  ASSUME TypeInv, LimitInv, [ToolsNext]_toolVars
  PROVE  LimitInv'
<1>a. ASSUME call' = Idle PROVE LimitInv'
  <2>1. call'.phase = "idle" /\ call'.output = -1
    BY <1>a DEF Idle
  <2> QED BY <2>1 DEF LimitInv, ReadsWithinLimit
<1>b. ASSUME call' = [call EXCEPT !.phase = "done"], call.phase # "done" PROVE LimitInv'
  <2>1. call'.phase = "done" /\ call'.output = -1
    BY <1>b DEF LimitInv, TypeInv, ToolCalls
  <2>2. ~(-1 > MaxRead)
    BY LimitsAssumption
  <2> QED BY <2>1, <2>2 DEF LimitInv, ReadsWithinLimit
<1>1. CASE RequestTool
  <2>1. call'.phase \in {"approving", "resolving"}
    BY <1>1, NewCallFields DEF RequestTool
  <2>2. call'.output = -1
    BY <1>1 DEF RequestTool, Idle
  <2> QED BY <2>1, <2>2 DEF LimitInv, ReadsWithinLimit
<1>2. CASE RequestApproval
  <2>1. CASE call' = [call EXCEPT !.phase = "resolving"]
    BY <1>2, <2>1 DEF LimitInv, ReadsWithinLimit, TypeInv, ToolCalls, RequestApproval
  <2> QED BY <1>2, <1>a, <2>1 DEF RequestApproval
<1>3. CASE Resolve
  <2> DEFINE target == Resolved(links, call.raw)
  <2>1. /\ call' = Idle \/ call' = [call EXCEPT !.phase = "checking", !.target = target]
        /\ call.phase = "resolving"
    BY <1>3 DEF Resolve, Fail
  <2> HIDE DEF target
  <2> QED BY <1>a, <2>1 DEF LimitInv, ReadsWithinLimit, TypeInv, ToolCalls
<1>4. CASE List
  BY <1>4, <1>a, <1>b DEF List, Check, Complete, Fail
<1>5. CASE CheckRead
  <2>1. CASE call' = [call EXCEPT !.phase = "reading"] /\ ~TooBig(disk[Place(call.target)])
    <3>1. /\ call'.phase = "reading" /\ call'.target = call.target /\ disk' = disk
          /\ call'.output = -1 /\ links' = links
      BY <1>5, <2>1 DEF TypeInv, ToolCalls, LimitInv, CheckRead, Check
    <3>2. ~(disk'[Walk(links', call'.target)] > MaxRead)
      BY <2>1, <3>1 DEF TooBig, Place
    <3> QED BY <3>1, <3>2 DEF LimitInv, ReadsWithinLimit, Place
  <2> QED BY <1>5, <1>a, <2>1 DEF CheckRead, Fail
<1>6. CASE Read
  <2> DEFINE size == disk[Place(call.target)]
  <2>1. CASE call' = [call EXCEPT !.phase = "done", !.output = size]
    <3>1. /\ call'.phase = "done" /\ call'.output = size
          /\ call.phase = "reading" /\ edited' = edited
      BY <1>6, <2>1 DEF TypeInv, ToolCalls, Read
    <3> QED BY <3>1 DEF LimitInv, ReadsWithinLimit
  <2> QED BY <1>6, <1>a, <2>1 DEF Read, Fail
<1>7. CASE MakeParents
  <2>1. CASE call' = [call EXCEPT !.phase = "writing"]
    BY <1>7, <2>1 DEF MakeParents, Check, TypeInv, ToolCalls, LimitInv, ReadsWithinLimit
  <2> QED BY <1>7, <1>a, <2>1 DEF MakeParents, Fail
<1>8. CASE Write
  BY <1>8, <1>a, <1>b DEF Write, Complete, Fail
<1>9. CASE Return
  BY <1>9, <1>a DEF Return
<1>10. CASE Edit
  <2> DEFINE place == Place(call.target)
  <2>1. PICK l \in Locations : /\ \E size : disk' = [disk EXCEPT ![l] = size]
                              /\ edited' = (edited \/ l = place)
    BY <1>10 DEF Edit
  <2>2. call' = call /\ links' = links /\ (edited => edited')
    BY <1>10, <2>1 DEF Edit
  <2>3. CASE l = place
    BY <2>1, <2>2, <2>3 DEF LimitInv, ReadsWithinLimit
  <2>4. CASE l # place
    <3>1. call.phase = "reading" => disk'[place] = disk[place]
      <4>1. call.phase = "reading" => place \in Locations
        BY TargetPlaces DEF TargetPhases
      <4> HIDE DEF place
      <4> QED BY <2>1, <2>4, <4>1 DEF TypeInv
    <3>2. place = Walk(links', call'.target)
      BY <2>2 DEF Place
    <3> QED BY <2>2, <3>1, <3>2 DEF LimitInv, ReadsWithinLimit, Place
  <2> QED BY <2>3, <2>4
<1>11. CASE Relink
  <2>1. /\ edited' = (edited \/ Walk(links', call.target) # Place(call.target))
        /\ call' = call /\ disk' = disk
    BY <1>11 DEF Relink
  <2> QED BY <2>1 DEF LimitInv, ReadsWithinLimit, Place
<1>12. CASE UNCHANGED toolVars
  BY <1>12 DEF LimitInv, ReadsWithinLimit, Place, toolVars
<1> QED BY <1>1, <1>2, <1>3, <1>4, <1>5, <1>6, <1>7, <1>8, <1>9, <1>10, <1>11, <1>12
        DEF ToolsNext, ToolStep

(* A read never returns more than max_read_bytes, unless somebody else     *)
(* changed the file, or what a link on its way leads to, between stat()    *)
(* and read_text().                                                        *)
THEOREM ReadLimitHolds == ToolsSpec => []ReadsWithinLimit
<1>1. ToolsInit => TypeInv /\ LimitInv
  <2>1. Idle.phase = "idle" /\ Idle.output = -1
    BY DEF Idle
  <2> QED BY <2>1, TypeInvInit DEF ToolsInit, LimitInv, ReadsWithinLimit
<1>2. TypeInv /\ LimitInv /\ [ToolsNext]_toolVars => (TypeInv /\ LimitInv)'
  BY TypeInvStep, LimitInvStep
<1>3. LimitInv => ReadsWithinLimit
  BY DEF LimitInv
<1> QED BY <1>1, <1>2, <1>3, PTL DEF ToolsSpec

-----------------------------------------------------------------------------
(* Sequences of one and of two. *)
LEMMA SeqOfOne ==
  ASSUME NEW K, NEW x \in K
  PROVE  <<x>> \in Seq(K) /\ Len(<<x>>) = 1 /\ <<x>>[1] = x
<1>1. <<x>> \in [1..1 -> K]
  OBVIOUS
<1> QED BY <1>1, SeqDef

LEMMA SeqOfTwo ==
  ASSUME NEW K, NEW x \in K, NEW y \in K
  PROVE  <<x, y>> \in Seq(K) /\ Len(<<x, y>>) = 2 /\ <<x, y>>[1] = x /\ <<x, y>>[2] = y
<1>1. <<x, y>> \in [1..2 -> K]
  OBVIOUS
<1> QED BY <1>1, SeqDef

LEMMA KeyBefore ==
  ASSUME NEW x, NEW y
  PROVE  <<x>> \o <<y>> = <<x, y>>
<1> DEFINE K == {x, y}
<1>1. /\ <<x>> \o <<y>> \in Seq(K) /\ Len(<<x>> \o <<y>>) = 2
      /\ \A i \in 1..2 : (<<x>> \o <<y>>)[i] = IF i <= 1 THEN <<x>>[i] ELSE <<y>>[i - 1]
  BY SeqOfOne, ConcatProperties
<1>2. (<<x>> \o <<y>>)[1] = x /\ (<<x>> \o <<y>>)[2] = y
  BY <1>1, SeqOfOne
<1>3. \A i \in 1..2 : (<<x>> \o <<y>>)[i] = <<x, y>>[i]
  BY <1>2, SeqOfTwo
<1> QED BY <1>1, <1>3, SeqOfTwo, SeqEqual

(* Redaction: what becomes of a leaf whose path has no sensitive key, and  *)
(* of one whose last key is the only sensitive one.                        *)

LEMMA InsensitiveLeaf ==
  ASSUME NEW path, NEW text, \A i \in DOMAIN path : path[i] \notin Sensitive
  PROVE  RedactLeaf(Leaf(path, text)) = Leaf(path, Truncate(text, MaxLogString))
<1>1. SensitiveAt(Leaf(path, text)) = {}
  BY DEF SensitiveAt, Leaf
<1>2. RedactLeaf(Leaf(path, text))
        = [Leaf(path, text) EXCEPT !.text = Truncate(@, MaxLogString)]
  BY <1>1 DEF RedactLeaf
<1> HIDE DEF Truncate
<1> QED BY <1>2 DEF Leaf

LEMMA SensitiveLeaf ==
  ASSUME NEW K, NEW path \in Seq(K), NEW text, path # <<>>, path[Len(path)] \in Sensitive,
         \A i \in 1..(Len(path) - 1) : path[i] \notin Sensitive
  PROVE  RedactLeaf(Leaf(path, text)) = Leaf(path, StringMarker(text))
<1> DEFINE at == SensitiveAt(Leaf(path, text))
           first == CHOOSE i \in at : \A j \in at : i <= j
<1>1. Len(path) \in Nat \ {0} /\ DOMAIN path = 1..Len(path)
  BY LenProperties, EmptySeq
<1>2. at = {Len(path)}
  BY <1>1 DEF SensitiveAt, Leaf
<1>3. first = Len(path)
  BY <1>1, <1>2
<1>4. SubSeq(path, 1, Len(path)) = path
  BY SubSeqFull
<1>5. Leaf(path, text).path = path /\ Leaf(path, text).text = text
  BY DEF Leaf
<1>6. RedactLeaf(Leaf(path, text))
        = Leaf(SubSeq(Leaf(path, text).path, 1, first),
               IF first = Len(Leaf(path, text).path)
                 THEN StringMarker(Leaf(path, text).text) ELSE DictMarker)
  BY <1>1, <1>2 DEF RedactLeaf
<1> QED BY <1>3, <1>4, <1>5, <1>6

LEMMA SensitiveKey ==
  ASSUME NEW key \in Sensitive, NEW text
  PROVE  /\ RedactLeaf(Leaf(<<key>>, text)) = Leaf(<<key>>, StringMarker(text))
         /\ \A k : k \notin Sensitive =>
              RedactLeaf(Leaf(<<k, key>>, text)) = Leaf(<<k, key>>, StringMarker(text))
<1>1. RedactLeaf(Leaf(<<key>>, text)) = Leaf(<<key>>, StringMarker(text))
  <2>1. <<key>> \in Seq({key}) /\ Len(<<key>>) = 1 /\ <<key>>[1] = key
    BY SeqOfOne
  <2>2. <<key>> # <<>>
    BY <2>1
  <2>3. \A i \in 1..(Len(<<key>>) - 1) : <<key>>[i] \notin Sensitive
    BY <2>1
  <2> QED BY <2>1, <2>2, <2>3, SensitiveLeaf
<1>2. ASSUME NEW k, k \notin Sensitive
      PROVE  RedactLeaf(Leaf(<<k, key>>, text)) = Leaf(<<k, key>>, StringMarker(text))
  <2>1. /\ <<k, key>> \in Seq({k, key}) /\ Len(<<k, key>>) = 2
        /\ <<k, key>>[1] = k /\ <<k, key>>[2] = key
    BY SeqOfTwo
  <2>2. <<k, key>> # <<>>
    BY <2>1
  <2>3. \A i \in 1..(Len(<<k, key>>) - 1) : <<k, key>>[i] \notin Sensitive
    BY <1>2, <2>1
  <2> QED BY <2>1, <2>2, <2>3, SensitiveLeaf
<1> QED BY <1>1, <1>2

(* Redacting a marker again leaves it as it is. *)
LEMMA MarkerIdempotent ==
  ASSUME NEW text
  PROVE  StringMarker(StringMarker(text)) = StringMarker(text)
BY DEF StringMarker, BeginsAsMarker, Markers

(* A string that nobody redacted before is shown only if it begins as a    *)
(* marker does.                                                            *)
Unredacted == {"text", "prefixed", "none"}

LEMMA MarkerHides ==
  ASSUME NEW text, text.shown \in Unredacted
  PROVE  /\ StringMarker(text).from = "marker" \/ StringMarker(text).shown = "prefixed"
         /\ text.shown # "prefixed" => StringMarker(text).from = "marker"
BY DEF StringMarker, BeginsAsMarker, Markers, Unredacted

LEMMA PathShown ==
  ASSUME NEW chars, NEW max
  PROVE  /\ Truncate(Text("path", chars), max).from = "path"
         /\ Truncate(Truncate(Text("path", chars), max), max).from = "path"
BY DEF Truncate, Text

(* The payloads, written out. *)
Shown(chars) == Truncate(Text("path", chars), MaxLogString)

ArgumentsOf(chars, content) ==
  {Leaf(<<"path">>, Text("path", chars)), Leaf(<<"content">>, content)}

LEMMA UnderKeys ==
  ASSUME NEW key, NEW p, NEW q, NEW s, NEW t
  PROVE  Under(key, {Leaf(<<p>>, s), Leaf(<<q>>, t)}) = {Leaf(<<key, p>>, s), Leaf(<<key, q>>, t)}
<1>1. <<key>> \o <<p>> = <<key, p>>
  BY KeyBefore
<1>2. <<key>> \o <<q>> = <<key, q>>
  BY KeyBefore
<1>3. /\ Leaf(<<p>>, s).path = <<p>> /\ Leaf(<<p>>, s).text = s
      /\ Leaf(<<q>>, t).path = <<q>> /\ Leaf(<<q>>, t).text = t
  BY DEF Leaf
<1> QED BY <1>1, <1>2, <1>3 DEF Under

LEMMA RedactedArguments ==
  ASSUME NEW chars, NEW content
  PROVE  Redact(ArgumentsOf(chars, content))
           = {Leaf(<<"path">>, Shown(chars)), Leaf(<<"content">>, StringMarker(content))}
<1>1. RedactLeaf(Leaf(<<"path">>, Text("path", chars))) = Leaf(<<"path">>, Shown(chars))
  BY InsensitiveLeaf DEF Sensitive, Shown
<1>2. RedactLeaf(Leaf(<<"content">>, content)) = Leaf(<<"content">>, StringMarker(content))
  BY SensitiveKey DEF Sensitive
<1> QED BY <1>1, <1>2 DEF Redact, ArgumentsOf

LEMMA RequestPayload ==
  ASSUME NEW chars, NEW content
  PROVE  Under("arguments", Redact(ArgumentsOf(chars, content)))
           = {Leaf(<<"arguments", "path">>, Shown(chars)),
              Leaf(<<"arguments", "content">>, StringMarker(content))}
BY RedactedArguments, UnderKeys

LEMMA ApprovalPayloadLeaves ==
  ASSUME NEW chars, NEW content, NEW preview
  PROVE  Redact(Under("redacted_arguments", Redact(ArgumentsOf(chars, content)))
                \cup {Leaf(<<"preview">>, preview)})
           = {Leaf(<<"redacted_arguments", "path">>, Truncate(Shown(chars), MaxLogString)),
              Leaf(<<"redacted_arguments", "content">>, StringMarker(content)),
              Leaf(<<"preview">>, StringMarker(preview))}
<1>1. Under("redacted_arguments", Redact(ArgumentsOf(chars, content)))
        = {Leaf(<<"redacted_arguments", "path">>, Shown(chars)),
           Leaf(<<"redacted_arguments", "content">>, StringMarker(content))}
  BY RedactedArguments, UnderKeys
<1>2. RedactLeaf(Leaf(<<"redacted_arguments", "path">>, Shown(chars)))
        = Leaf(<<"redacted_arguments", "path">>, Truncate(Shown(chars), MaxLogString))
  BY InsensitiveLeaf DEF Sensitive
<1>3. RedactLeaf(Leaf(<<"redacted_arguments", "content">>, StringMarker(content)))
        = Leaf(<<"redacted_arguments", "content">>, StringMarker(content))
  BY SensitiveKey, MarkerIdempotent DEF Sensitive
<1>4. RedactLeaf(Leaf(<<"preview">>, preview)) = Leaf(<<"preview">>, StringMarker(preview))
  BY SensitiveKey DEF Sensitive
<1> QED BY <1>1, <1>2, <1>3, <1>4 DEF Redact

(* What a tool returns: a read's content, a listing's names, a path.       *)
Hidden(leaf) ==
  leaf.text.from = "content" => leaf.text.shown = "prefixed" /\ leaf.path # <<"preview">>

LEMMA OutputHidden ==
  ASSUME NEW K, NEW path \in Seq(K), path # <<>>, NEW text,
         text.from # "content" \/ text.shown = "prefixed"
  PROVE  \A leaf \in Under("output", {Leaf(path, text)}) : Hidden(leaf)
<1> DEFINE whole == <<"output">> \o path
<1>1. whole # <<"preview">>
  <2>1. "output" \in K \cup {"output"} /\ path \in Seq(K \cup {"output"})
    BY SeqMonotonic
  <2>2. <<"output">> \in Seq(K \cup {"output"}) /\ Len(<<"output">>) = 1 /\ <<"output">>[1] = "output"
    BY SeqOfOne
  <2>3. whole[1] = "output"
    BY <2>1, <2>2, ConcatProperties, LenProperties
  <2>4. <<"preview">>[1] = "preview"
    BY SeqOfOne
  <2> QED BY <2>3, <2>4
<1> HIDE DEF whole
<1>2. Under("output", {Leaf(path, text)}) = {Leaf(whole, text)}
  BY DEF Under, Leaf, whole
<1>3. Hidden(Leaf(whole, text))
  BY <1>1 DEF Hidden, Leaf
<1> QED BY <1>2, <1>3

LEMMA OutputPayloads ==
  /\ \A size : \A text \in FileTexts(size) :
       \A leaf \in Under("output", Redact({Leaf(<<"content">>, text)})) : Hidden(leaf)
  /\ \A leaf \in Under("output", Redact({Leaf(<<"entries", "name">>, Text("path", 1))})) : Hidden(leaf)
  /\ \A leaf \in Under("output", Redact({Leaf(<<"path">>, Text("path", 1))})) : Hidden(leaf)
<1>1. ASSUME NEW size, NEW text \in FileTexts(size)
      PROVE  \A leaf \in Under("output", Redact({Leaf(<<"content">>, text)})) : Hidden(leaf)
  <2>1. RedactLeaf(Leaf(<<"content">>, text)) = Leaf(<<"content">>, StringMarker(text))
    BY SensitiveKey DEF Sensitive
  <2>2. text.shown \in Unredacted
    BY DEF FileTexts, Unredacted
  <2>3. StringMarker(text).from # "content" \/ StringMarker(text).shown = "prefixed"
    BY <2>2, MarkerHides
  <2>4. Redact({Leaf(<<"content">>, text)}) = {Leaf(<<"content">>, StringMarker(text))}
    BY <2>1 DEF Redact
  <2>5. <<"content">> \in Seq({"content"}) /\ <<"content">> # <<>>
    BY SeqOfOne
  <2> QED BY <2>3, <2>4, <2>5, OutputHidden
<1>2. /\ Redact({Leaf(<<"path">>, Text("path", 1))}) = {Leaf(<<"path">>, Shown(1))}
      /\ Redact({Leaf(<<"entries", "name">>, Text("path", 1))})
           = {Leaf(<<"entries", "name">>, Shown(1))}
  <2>1. RedactLeaf(Leaf(<<"path">>, Text("path", 1))) = Leaf(<<"path">>, Shown(1))
    BY InsensitiveLeaf DEF Sensitive, Shown
  <2>2. RedactLeaf(Leaf(<<"entries", "name">>, Text("path", 1)))
          = Leaf(<<"entries", "name">>, Shown(1))
    BY InsensitiveLeaf DEF Sensitive, Shown
  <2> QED BY <2>1, <2>2 DEF Redact
<1>3. Shown(1).from # "content"
  BY PathShown DEF Shown
<1>4. /\ <<"path">> \in Seq({"path"}) /\ <<"path">> # <<>>
      /\ <<"entries", "name">> \in Seq({"entries", "name"}) /\ <<"entries", "name">> # <<>>
  BY SeqOfOne, SeqOfTwo
<1> QED BY <1>1, <1>2, <1>3, <1>4, OutputHidden

-----------------------------------------------------------------------------
(* Content: every entry of the log is made of redacted leaves.             *)

LEMMA ArgumentIsUnredacted ==
  ASSUME TypeInv
  PROVE  call.content.shown \in Unredacted
<1>1. call.content \in Contents \/ call.content = Text("content", 0)
  BY DEF TypeInv, ToolCalls, Idle
<1> QED BY <1>1, ContentsAssumption DEF Text, Unredacted

(* The preview begins with "Path: ", whatever the content begins with. *)
LEMMA PreviewLeaf ==
  ASSUME NEW action, NEW content \in [from : {"content", "none"}, shown : Unredacted, chars : Nat]
  PROVE  \E text : /\ Preview(action, content) = Leaf(<<"preview">>, text)
                   /\ StringMarker(text).from = "marker"
<1> DEFINE none == [from |-> "none", shown |-> "none", chars |-> 0]
           plain == [content EXCEPT !.shown = "text"]
<1>1. \/ Preview(action, content) = Leaf(<<"preview">>, plain)
      \/ Preview(action, content) = Leaf(<<"preview">>, none)
  BY DEF Preview
<1>2. plain.shown = "text" /\ none.shown = "none"
  OBVIOUS
<1> HIDE DEF plain, none
<1>3. StringMarker(plain).from = "marker" /\ StringMarker(none).from = "marker"
  BY <1>2, MarkerHides DEF Unredacted
<1> QED BY <1>1, <1>3

LEMMA HiddenLeaves ==
  ContentHiddenUnlessPrefixed <=> \A e \in log : \A leaf \in e.payload : Hidden(leaf)
BY DEF ContentHiddenUnlessPrefixed, Hidden

LEMMA HiddenEntry ==
  ASSUME ContentHiddenUnlessPrefixed, NEW n, NEW type, NEW payload, LogFor(n, type, payload),
         \A leaf \in payload : Hidden(leaf)
  PROVE  ContentHiddenUnlessPrefixed'
<1> DEFINE entry == [type |-> type, call |-> n, payload |-> payload]
<1>1. log' = log \cup {entry} /\ entry.payload = payload
  BY DEF LogFor
<1> HIDE DEF entry
<1>2. \A e \in log' : \A leaf \in e.payload : Hidden(leaf)
  BY <1>1, HiddenLeaves
<1> QED BY <1>2 DEF ContentHiddenUnlessPrefixed, Hidden

(* A leaf of the log that is not content, or prefixed content of an argument. *)
LEMMA HiddenLeaf ==
  ASSUME NEW path, NEW text, \/ text.from # "content"
                             \/ text.shown = "prefixed" /\ path # <<"preview">>
  PROVE  Hidden(Leaf(path, text))
BY DEF Hidden, Leaf

LEMMA ArgumentPaths ==
  /\ <<"arguments", "content">> # <<"preview">>
  /\ <<"redacted_arguments", "content">> # <<"preview">>
<1>1. /\ Len(<<"preview">>) = 1 /\ Len(<<"arguments", "content">>) = 2
      /\ Len(<<"redacted_arguments", "content">>) = 2
  BY SeqOfOne, SeqOfTwo
<1> QED BY <1>1

(* The two entries with arguments. *)
LEMMA RequestHidden ==
  ASSUME NEW chars, NEW content, content.shown \in Unredacted
  PROVE  \A leaf \in Under("arguments", Redact(ArgumentsOf(chars, content))) : Hidden(leaf)
<1>1. /\ Shown(chars).from # "content"
      /\ StringMarker(content).from # "content" \/ StringMarker(content).shown = "prefixed"
  BY PathShown, MarkerHides DEF Shown
<1>2. /\ Hidden(Leaf(<<"arguments", "path">>, Shown(chars)))
      /\ Hidden(Leaf(<<"arguments", "content">>, StringMarker(content)))
  BY <1>1, HiddenLeaf, ArgumentPaths
<1> QED BY <1>2, RequestPayload

LEMMA ApprovalHidden ==
  ASSUME TypeInv
  PROVE  \A leaf \in ApprovalPayload : Hidden(leaf)
<1> DEFINE chars == Len(call.raw.names)
<1>1. call.content \in [from : {"content", "none"}, shown : Unredacted, chars : Nat]
  BY ContentsAssumption DEF TypeInv, ToolCalls, Idle, Text, Unredacted
<1>2. PICK text : /\ Preview(call.tool, call.content) = Leaf(<<"preview">>, text)
                  /\ StringMarker(text).from = "marker"
  BY <1>1, PreviewLeaf
<1>3. ApprovalPayload
        = {Leaf(<<"redacted_arguments", "path">>, Truncate(Shown(chars), MaxLogString)),
           Leaf(<<"redacted_arguments", "content">>, StringMarker(call.content)),
           Leaf(<<"preview">>, StringMarker(text))}
  <2>1. Arguments = ArgumentsOf(chars, call.content)
    BY DEF Arguments, ArgumentsOf
  <2> QED BY <1>2, <2>1, ApprovalPayloadLeaves DEF ApprovalPayload
<1>4. /\ Truncate(Shown(chars), MaxLogString).from # "content"
      /\ StringMarker(call.content).from # "content" \/ StringMarker(call.content).shown = "prefixed"
  BY PathShown, MarkerHides, ArgumentIsUnredacted DEF Shown
<1>5. /\ Hidden(Leaf(<<"redacted_arguments", "path">>, Truncate(Shown(chars), MaxLogString)))
      /\ Hidden(Leaf(<<"redacted_arguments", "content">>, StringMarker(call.content)))
      /\ Hidden(Leaf(<<"preview">>, StringMarker(text)))
  BY <1>2, <1>4, HiddenLeaf, ArgumentPaths
<1> QED BY <1>3, <1>5

LEMMA ContentInvStep ==
  ASSUME TypeInv, ContentHiddenUnlessPrefixed, [ToolsNext]_toolVars
  PROVE  ContentHiddenUnlessPrefixed'
<1>a. ASSUME log' = log PROVE ContentHiddenUnlessPrefixed'
  BY <1>a DEF ContentHiddenUnlessPrefixed
<1>b. ASSUME Fail PROVE ContentHiddenUnlessPrefixed'
  <2>1. \A leaf \in {Leaf(<<"error">>, Text("path", 1))} : Hidden(leaf)
    BY HiddenLeaf DEF Text
  <2> QED BY <1>b, <2>1, HiddenEntry DEF Fail, Log
<1>1. CASE RequestTool
  <2>1. PICK tool \in Tools, raw \in RawPaths, content \in Contents :
          call' = [Idle EXCEPT !.phase = IF tool \in Gated THEN "approving" ELSE "resolving",
                               !.tool = tool, !.raw = raw, !.content = content]
    BY <1>1 DEF RequestTool
  <2>2. call'.content = content
    BY <2>1, NewCallFields
  <2>3. PICK chars : Arguments' = ArgumentsOf(chars, content)
    BY <2>2 DEF Arguments, ArgumentsOf
  <2>4. LogFor(calls + 1, "tool.requested", Under("arguments", Redact(ArgumentsOf(chars, content))))
    BY <1>1, <2>3 DEF RequestTool
  <2>5. content.shown \in Unredacted
    BY ContentsAssumption DEF Unredacted
  <2> QED BY <2>4, <2>5, RequestHidden, HiddenEntry
<1>2. CASE RequestApproval
  BY <1>2, ApprovalHidden, HiddenEntry DEF RequestApproval, Log
<1>3. CASE Resolve
  BY <1>3, <1>a, <1>b DEF Resolve
<1>4. CASE List
  <2>1. Fail \/ Log("tool.completed",
                    Under("output", Redact({Leaf(<<"entries", "name">>, Text("path", 1))})))
    BY <1>4 DEF List, Complete
  <2> QED BY <1>b, <2>1, OutputPayloads, HiddenEntry DEF Log
<1>5. CASE CheckRead
  BY <1>5, <1>a, <1>b DEF CheckRead
<1>6. CASE Read
  <2>1. \/ Fail
        \/ \E size : \E text \in FileTexts(size) :
             Log("tool.completed", Under("output", Redact({Leaf(<<"content">>, text)})))
    BY <1>6 DEF Read
  <2> QED BY <1>b, <2>1, OutputPayloads, HiddenEntry DEF Log
<1>7. CASE MakeParents
  BY <1>7, <1>a, <1>b DEF MakeParents
<1>8. CASE Write
  <2>1. Fail \/ Log("tool.completed", Under("output", Redact({Leaf(<<"path">>, Text("path", 1))})))
    BY <1>8 DEF Write, Complete
  <2> QED BY <1>b, <2>1, OutputPayloads, HiddenEntry DEF Log
<1>9. CASE Return
  BY <1>9, <1>a DEF Return
<1>10. CASE Edit
  BY <1>10, <1>a DEF Edit
<1>11. CASE Relink
  BY <1>11, <1>a DEF Relink
<1>12. CASE UNCHANGED toolVars
  BY <1>12, <1>a DEF toolVars
<1> QED BY <1>1, <1>2, <1>3, <1>4, <1>5, <1>6, <1>7, <1>8, <1>9, <1>10, <1>11, <1>12
        DEF ToolsNext, ToolStep

(* What a file holds, or a write is to put into one, reaches the log only  *)
(* where the whole of it begins as a marker does; an approver's preview    *)
(* that is logged never shows it.                                          *)
THEOREM LogHidesContent == ToolsSpec => []ContentHiddenUnlessPrefixed
<1>1. ToolsInit => TypeInv /\ ContentHiddenUnlessPrefixed
  BY TypeInvInit DEF ToolsInit, ContentHiddenUnlessPrefixed
<1>2. TypeInv /\ ContentHiddenUnlessPrefixed /\ [ToolsNext]_toolVars
        => (TypeInv /\ ContentHiddenUnlessPrefixed)'
  BY TypeInvStep, ContentInvStep
<1> QED BY <1>1, <1>2, PTL DEF ToolsSpec

-----------------------------------------------------------------------------
(* Markers: the entry of a call's request carries the marker of the        *)
(* content the call still has, until the call is over; no entry is about a *)
(* call that has not been made yet.                                        *)

MarkersAt(e, path) == {leaf.text : leaf \in {x \in e.payload : x.path = path}}
RequestMarkers(e) == MarkersAt(e, <<"arguments", "content">>)
ApprovalMarkers(e) == MarkersAt(e, <<"redacted_arguments", "content">>)

MarkersInv ==
  /\ \A e \in log : e.call \in 0..calls
  /\ call.phase # "idle" =>
       \A e \in log : e.call = calls /\ e.type = "tool.requested" =>
         RequestMarkers(e) = {StringMarker(call.content)}
  /\ MarkersAgree

LEMMA MarkersAgreeReads ==
  MarkersAgree <=> \A e, f \in log :
                     e.call = f.call /\ e.type = "tool.requested" /\ f.type = "approval.requested"
                       => RequestMarkers(e) = ApprovalMarkers(f)
BY DEF MarkersAgree, RequestMarkers, ApprovalMarkers, MarkersAt

LEMMA DifferentPaths ==
  /\ <<"arguments", "path">> # <<"arguments", "content">>
  /\ <<"redacted_arguments", "path">> # <<"redacted_arguments", "content">>
  /\ <<"preview">> # <<"redacted_arguments", "content">>
<1>1. /\ <<"arguments", "path">>[2] = "path" /\ <<"arguments", "content">>[2] = "content"
      /\ <<"redacted_arguments", "path">>[2] = "path"
      /\ <<"redacted_arguments", "content">>[2] = "content"
  OBVIOUS
<1>2. Len(<<"preview">>) = 1 /\ Len(<<"redacted_arguments", "content">>) = 2
  BY SeqOfOne, SeqOfTwo
<1> QED BY <1>1, <1>2

LEMMA RequestMarkersAre ==
  ASSUME NEW chars, NEW content, NEW e,
         e.payload = Under("arguments", Redact(ArgumentsOf(chars, content)))
  PROVE  RequestMarkers(e) = {StringMarker(content)}
<1>1. e.payload = {Leaf(<<"arguments", "path">>, Shown(chars)),
                   Leaf(<<"arguments", "content">>, StringMarker(content))}
  BY RequestPayload
<1>2. \A path, text : Leaf(path, text).path = path /\ Leaf(path, text).text = text
  BY DEF Leaf
<1>3. {x \in e.payload : x.path = <<"arguments", "content">>}
        = {Leaf(<<"arguments", "content">>, StringMarker(content))}
  BY <1>1, <1>2, DifferentPaths
<1> QED BY <1>2, <1>3 DEF RequestMarkers, MarkersAt

LEMMA ApprovalMarkersAre ==
  ASSUME NEW f, f.payload = ApprovalPayload
  PROVE  ApprovalMarkers(f) = {StringMarker(call.content)}
<1> DEFINE chars == Len(call.raw.names)
           key == <<"redacted_arguments", "content">>
<1>1. PICK text : Preview(call.tool, call.content) = Leaf(<<"preview">>, text)
  BY DEF Preview
<1>2. f.payload = {Leaf(<<"redacted_arguments", "path">>, Truncate(Shown(chars), MaxLogString)),
                   Leaf(key, StringMarker(call.content)),
                   Leaf(<<"preview">>, StringMarker(text))}
  <2>1. Arguments = ArgumentsOf(chars, call.content)
    BY DEF Arguments, ArgumentsOf
  <2> QED BY <1>1, <2>1, ApprovalPayloadLeaves DEF ApprovalPayload
<1>3. \A path, t : Leaf(path, t).path = path /\ Leaf(path, t).text = t
  BY DEF Leaf
<1>4. <<"redacted_arguments", "path">> # key /\ <<"preview">> # key
  BY DifferentPaths
<1> HIDE DEF key
<1>5. {x \in f.payload : x.path = key} = {Leaf(key, StringMarker(call.content))}
  BY <1>2, <1>3, <1>4
<1> QED BY <1>3, <1>5 DEF ApprovalMarkers, MarkersAt, key

(* An entry of another type than the two with arguments. *)
LEMMA OtherEntry ==
  ASSUME MarkersInv, NEW n \in 0..calls, NEW type, NEW payload, LogFor(n, type, payload),
         type \notin {"tool.requested", "approval.requested"}, calls' = calls,
         call'.phase # "idle" => call.phase # "idle" /\ call'.content = call.content
  PROVE  MarkersInv'
<1> DEFINE entry == [type |-> type, call |-> n, payload |-> payload]
<1>1. log' = log \cup {entry} /\ entry.type = type /\ entry.call = n
  BY DEF LogFor
<1> HIDE DEF entry
<1>2. MarkersAgree'
  BY <1>1 DEF MarkersInv, MarkersAgree
<1>3. \A e \in log' : e.call \in 0..calls'
  BY <1>1 DEF MarkersInv
<1>4. ASSUME call'.phase # "idle", NEW e \in log', e.call = calls', e.type = "tool.requested"
      PROVE  RequestMarkers(e) = {StringMarker(call'.content)}
  BY <1>1, <1>4 DEF MarkersInv
<1> QED BY <1>2, <1>3, <1>4 DEF MarkersInv

LEMMA MarkersInvStep ==
  ASSUME TypeInv, MarkersInv, [ToolsNext]_toolVars
  PROVE  MarkersInv'
<1>0. calls \in Nat /\ calls \in 0..calls
  BY DEF TypeInv
<1>a. ASSUME log' = log, calls' = calls,
             call'.phase # "idle" => call.phase # "idle" /\ call'.content = call.content
      PROVE  MarkersInv'
  <2>1. MarkersAgree'
    BY <1>a DEF MarkersInv, MarkersAgree
  <2>2. ASSUME call'.phase # "idle", NEW e \in log', e.call = calls', e.type = "tool.requested"
        PROVE  RequestMarkers(e) = {StringMarker(call'.content)}
    BY <1>a, <2>2 DEF MarkersInv
  <2>3. \A e \in log' : e.call \in 0..calls'
    BY <1>a DEF MarkersInv
  <2> QED BY <2>1, <2>2, <2>3 DEF MarkersInv
<1>b. ASSUME Fail, calls' = calls PROVE MarkersInv'
  <2>1. call'.phase = "idle"
    BY <1>b, IdleFields DEF Fail
  <2>2. LogFor(calls, "tool.failed", {Leaf(<<"error">>, Text("path", 1))})
    BY <1>b DEF Fail, Log
  <2> QED BY <1>0, <1>b, <2>1, <2>2, OtherEntry
<1>1. CASE RequestTool
  <2>1. PICK tool \in Tools, raw \in RawPaths, content \in Contents :
          call' = [Idle EXCEPT !.phase = IF tool \in Gated THEN "approving" ELSE "resolving",
                               !.tool = tool, !.raw = raw, !.content = content]
    BY <1>1 DEF RequestTool
  <2>2. call'.content = content
    BY <2>1, NewCallFields
  <2>3. PICK chars : Arguments' = ArgumentsOf(chars, content)
    BY <2>2 DEF Arguments, ArgumentsOf
  <2> DEFINE payload == Under("arguments", Redact(ArgumentsOf(chars, content)))
             entry == [type |-> "tool.requested", call |-> calls + 1, payload |-> payload]
  <2>4. log' = log \cup {entry} /\ calls' = calls + 1
    BY <1>1, <2>3 DEF RequestTool, LogFor
  <2>5. entry.call = calls + 1 /\ entry.type = "tool.requested"
    OBVIOUS
  <2>6. RequestMarkers(entry) = {StringMarker(content)}
    BY RequestMarkersAre
  <2> HIDE DEF entry
  <2>7. \A e \in log : e.call \in 0..calls /\ e.call # calls + 1
    BY <1>0 DEF MarkersInv
  <2>8. MarkersAgree'
    <3>1. ASSUME NEW e \in log', NEW f \in log', e.call = f.call,
                 e.type = "tool.requested", f.type = "approval.requested"
          PROVE  RequestMarkers(e) = ApprovalMarkers(f)
      <4>1. e \in log /\ f \in log
        BY <2>4, <2>5, <2>7, <3>1
      <4> QED BY <3>1, <4>1, MarkersAgreeReads DEF MarkersInv
    <3> QED BY <3>1 DEF MarkersAgree, RequestMarkers, ApprovalMarkers, MarkersAt
  <2>9. \A e \in log' : e.call \in 0..calls'
    BY <1>0, <2>4, <2>5, <2>7
  <2>10. \A e \in log' : e.call = calls' => RequestMarkers(e) = {StringMarker(call'.content)}
    BY <2>2, <2>4, <2>5, <2>6, <2>7
  <2> QED BY <2>8, <2>9, <2>10 DEF MarkersInv
<1>2. CASE RequestApproval
  <2> DEFINE entry == [type |-> "approval.requested", call |-> calls, payload |-> ApprovalPayload]
  <2>1. log' = log \cup {entry} /\ calls' = calls /\ call.phase = "approving"
    BY <1>2 DEF RequestApproval, Log, LogFor
  <2>2. entry.call = calls /\ entry.type = "approval.requested"
    OBVIOUS
  <2>3. ApprovalMarkers(entry) = {StringMarker(call.content)}
    BY ApprovalMarkersAre
  <2> HIDE DEF entry
  <2>4. \A e \in log : e.call = calls /\ e.type = "tool.requested" =>
                        RequestMarkers(e) = {StringMarker(call.content)}
    BY <2>1 DEF MarkersInv
  <2>5. \A e, f \in log' :
          e.call = f.call /\ e.type = "tool.requested" /\ f.type = "approval.requested"
            => RequestMarkers(e) = ApprovalMarkers(f)
    BY <2>1, <2>2, <2>3, <2>4, MarkersAgreeReads DEF MarkersInv
  <2>6. MarkersAgree'
    BY <2>5 DEF MarkersAgree, RequestMarkers, ApprovalMarkers, MarkersAt
  <2>7. \A e \in log' : e.call \in 0..calls'
    BY <1>0, <2>1, <2>2 DEF MarkersInv
  <2>8. call'.phase # "idle" => call'.content = call.content
    BY <1>2, IdleFields DEF RequestApproval, TypeInv, ToolCalls
  <2>9. ASSUME call'.phase # "idle", NEW e \in log', e.call = calls', e.type = "tool.requested"
        PROVE  RequestMarkers(e) = {StringMarker(call'.content)}
    BY <2>1, <2>2, <2>4, <2>8, <2>9
  <2> QED BY <2>6, <2>7, <2>9 DEF MarkersInv
<1>3. CASE Resolve
  <2> DEFINE target == Resolved(links, call.raw)
  <2>1. \/ Fail
        \/ log' = log /\ call' = [call EXCEPT !.phase = "checking", !.target = target]
    BY <1>3 DEF Resolve
  <2>2. call.phase = "resolving" /\ calls' = calls
    BY <1>3 DEF Resolve
  <2> HIDE DEF target
  <2> QED BY <1>a, <1>b, <2>1, <2>2 DEF TypeInv, ToolCalls
<1>c. ASSUME NEW output, Complete(output), calls' = calls, call.phase # "idle" PROVE MarkersInv'
  <2>1. LogFor(calls, "tool.completed", Under("output", Redact(output)))
    BY <1>c DEF Complete, Log
  <2>2. call'.content = call.content
    BY <1>c DEF Complete, TypeInv, ToolCalls
  <2> QED BY <1>0, <1>c, <2>1, <2>2, OtherEntry
<1>4. CASE List
  BY <1>4, <1>b, <1>c DEF List, Check
<1>5. CASE CheckRead
  BY <1>5, <1>a, <1>b DEF CheckRead, Check, TypeInv, ToolCalls
<1>6. CASE Read
  <2>1. CASE Fail
    BY <1>6, <1>b, <2>1 DEF Read
  <2>2. CASE ~Fail
    <3>1. PICK payload : LogFor(calls, "tool.completed", payload)
      BY <1>6, <2>2 DEF Read, Log
    <3>2. call.phase # "idle" /\ call'.content = call.content /\ calls' = calls
      BY <1>6, <2>2 DEF Read, TypeInv, ToolCalls
    <3> QED BY <1>0, <3>1, <3>2, OtherEntry
  <2> QED BY <2>1, <2>2
<1>7. CASE MakeParents
  BY <1>7, <1>a, <1>b DEF MakeParents, Check, TypeInv, ToolCalls
<1>8. CASE Write
  BY <1>8, <1>b, <1>c DEF Write
<1>9. CASE Return
  BY <1>9, <1>a, IdleFields DEF Return
<1>10. CASE Edit
  BY <1>10, <1>a DEF Edit
<1>11. CASE Relink
  BY <1>11, <1>a DEF Relink
<1>12. CASE UNCHANGED toolVars
  BY <1>12, <1>a DEF toolVars
<1> QED BY <1>1, <1>2, <1>3, <1>4, <1>5, <1>6, <1>7, <1>8, <1>9, <1>10, <1>11, <1>12
        DEF ToolsNext, ToolStep

(* Redacting the arguments a second time, for the approver, measures the   *)
(* content and not the marker that stands for it: both entries agree.      *)
THEOREM ApprovalShowsRequestMarker == ToolsSpec => []MarkersAgree
<1>1. ToolsInit => TypeInv /\ MarkersInv
  <2>1. ToolsInit => log = {} /\ call.phase = "idle"
    BY IdleFields DEF ToolsInit
  <2>2. log = {} /\ call.phase = "idle" => MarkersInv
    BY DEF MarkersInv, MarkersAgree
  <2> QED BY <2>1, <2>2, TypeInvInit
<1>2. TypeInv /\ MarkersInv /\ [ToolsNext]_toolVars => (TypeInv /\ MarkersInv)'
  BY TypeInvStep, MarkersInvStep
<1>3. MarkersInv => MarkersAgree
  BY DEF MarkersInv
<1> QED BY <1>1, <1>2, <1>3, PTL DEF ToolsSpec
=============================================================================
