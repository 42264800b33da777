-------------------------- MODULE FilesystemTools ---------------------------
(***************************************************************************)
(* tools/builtin/filesystem.py, and what tools/broker.py writes to the log *)
(* about its calls.  A tool call runs synchronously in its process, but    *)
(* as several system calls, and the workspace is an ordinary directory:    *)
(* between two of them other processes may create, resize or remove files  *)
(* and directories, and put symbolic links in their place or take links    *)
(* away.                                                                   *)
(*                                                                         *)
(* A location is the sequence of names from the root of the file system;   *)
(* a disk maps each location to its size in bytes, or to Dir or Absent.  A *)
(* symbolic link hides what the disk has at its location.                  *)
(***************************************************************************)
EXTENDS Redaction, SequencesExt

CONSTANTS
  Disk0,          \* the disk at the start
  Root,           \* SecurityConfig.workspace_root, resolved
  LinkMaps,       \* the symbolic links there may be: location |-> where it leads
  NamePrefixes,   \* pairs of names of which the first begins the second
  RawPaths,       \* the path arguments of tool calls
  Contents,       \* the content arguments
  MaxRead,        \* security.max_read_bytes
  MaxWrite,       \* security.max_write_bytes
  Gated,          \* tools that need approval
  MaxEdits,       \* bound: changes by other processes
  MaxCalls        \* bound: tool calls

Absent == -2
Dir == -1
Locations == DOMAIN Disk0
Tools == {"filesystem.list", "filesystem.read", "filesystem.write"}

ASSUME LimitsAssumption == MaxRead \in Nat \ {0} /\ MaxWrite \in Nat \ {0}

VARIABLES
  disk,      \* what every process sees
  links,     \* one of LinkMaps
  call,      \* the locals of the call in progress
  moved,     \* others made the resolved path of this call lead elsewhere
  edited,    \* others changed the target since this call looked at it
  touched,   \* the locations this call read, listed, created or wrote
  log,       \* payloads of the events about tool calls
  edits,     \* changes by other processes so far
  calls      \* calls so far

toolVars == <<disk, links, call, moved, edited, touched, log, edits, calls>>

Idle == [phase |-> "idle", tool |-> "filesystem.list", raw |-> [absolute |-> FALSE, names |-> <<>>],
         content |-> Text("content", 0), target |-> <<>>, output |-> -1]

ToolsInit ==
  /\ disk = Disk0
  /\ links \in LinkMaps
  /\ call = Idle
  /\ moved = FALSE
  /\ edited = FALSE
  /\ touched = {}
  /\ log = {}
  /\ edits = 0
  /\ calls = 0

-----------------------------------------------------------------------------
(* Walking a path: links are followed as they are met, ".." goes up from   *)
(* where they lead.                                                        *)

Enter(m, at, name) ==
  CASE name = "." -> at
    [] name = ".." -> IF at = <<>> THEN at ELSE Front(at)
    [] OTHER -> LET next == Append(at, name)
                IN  IF next \in DOMAIN m THEN m[next] ELSE next

Walk(m, names) == LET Next(at, name) == Enter(m, at, name) IN FoldLeft(Next, <<>>, names)

(* Where the system finds what a resolved path names, by now. *)
Place(l) == Walk(links, l)

(* (root / raw_path).resolve(): an absolute path replaces the root.        *)
Resolved(m, raw) == Walk(m, IF raw.absolute THEN raw.names ELSE Root \o raw.names)

(* Mutant: target_text.startswith(root_text), without the separator. *)
TextPrefix(target) ==
  /\ Len(target) >= Len(Root)
  /\ \A i \in 1..(Len(Root) - 1) : target[i] = Root[i]
  /\ Root # <<>> => \/ target[Len(Root)] = Root[Len(Root)]
                    \/ <<Root[Len(Root)], target[Len(Root)]>> \in NamePrefixes

(* target_text.startswith(root_text + os.sep).  The text of the root       *)
(* directory already ends in the separator: no path begins with two.       *)
InsideText(target) == Root # <<>> /\ IsStrictPrefix(Root, target)

Allowed(target) == target = Root \/ InsideText(target)

Parent(l) == Front(l)
Parents(l) == {SubSeq(l, 1, i) : i \in 0..(Len(l) - 1)}
OnWay(l) == {l} \cup Parents(l)

(* The disk holds every location a path argument can lead to, its size a   *)
(* number of bytes.  A resolved path has no links on its way: walking it,  *)
(* or a directory it passes, again leads to the same place until links     *)
(* change.  The workspace root exists, as do the directories it is in: the *)
(* resolved workspace_root of a running team.                              *)
ASSUME DiskAssumption ==
  /\ Locations \subseteq Seq(STRING)
  /\ Disk0 \in [Locations -> Nat \cup {Dir, Absent}]
  /\ \A m \in LinkMaps, raw \in RawPaths : \A l \in OnWay(Resolved(m, raw)) :
       l \in Locations /\ Walk(m, l) = l /\ \A n \in LinkMaps : Walk(n, l) \in Locations
ASSUME RootAssumption ==
  \A l \in {Root} \cup Parents(Root) : l \in Locations /\ Disk0[l] = Dir
ASSUME ContentsAssumption ==
  Contents \subseteq [from : {"content", "none"}, shown : {"text", "prefixed", "none"}, chars : Nat]

-----------------------------------------------------------------------------
(* ToolBroker.execute: the request is recorded, then - redacted a second   *)
(* time, with a preview - the request for approval.                        *)

Arguments ==
  {Leaf(<<"path">>, Text("path", Len(call.raw.names))), Leaf(<<"content">>, call.content)}

LogFor(n, type, payload) == log' = log \cup {[type |-> type, call |-> n, payload |-> payload]}
Log(type, payload) == LogFor(calls, type, payload)

RequestTool ==
  /\ call.phase = "idle" /\ calls < MaxCalls
  /\ calls' = calls + 1
  /\ \E tool \in Tools, raw \in RawPaths, content \in Contents :
       call' = [Idle EXCEPT !.phase = IF tool \in Gated THEN "approving" ELSE "resolving",
                            !.tool = tool, !.raw = raw, !.content = content]
  /\ LogFor(calls + 1, "tool.requested", Under("arguments", Redact(Arguments')))
  /\ UNCHANGED <<disk, links, moved, edited, touched, edits>>

ApprovalPayload ==
  Redact(Under("redacted_arguments", Redact(Arguments)) \cup {Preview(call.tool, call.content)})

RequestApproval ==
  /\ call.phase = "approving"
  /\ Log("approval.requested", ApprovalPayload)
  /\ call' \in {[call EXCEPT !.phase = "resolving"], Idle}
  /\ UNCHANGED <<disk, links, moved, edited, touched, edits, calls>>

Fail ==
  /\ Log("tool.failed", {Leaf(<<"error">>, Text("path", 1))})
  /\ call' = Idle

Complete(output) ==
  /\ Log("tool.completed", Under("output", Redact(output)))
  /\ call' = [call EXCEPT !.phase = "done"]

Return ==
  /\ call.phase = "done"
  /\ call' = Idle
  /\ UNCHANGED <<disk, links, moved, edited, touched, log, edits, calls>>

-----------------------------------------------------------------------------
(* The tools: one action per system call that others can come between.     *)

Resolve ==
  /\ call.phase = "resolving"
  /\ LET target == Resolved(links, call.raw)
     IN  IF call.raw.names # <<>> /\ Allowed(target)
           THEN /\ call' = [call EXCEPT !.phase = "checking", !.target = target]
                /\ UNCHANGED log
           ELSE Fail
  /\ moved' = FALSE
  /\ edited' = FALSE
  /\ touched' = {}
  /\ UNCHANGED <<disk, links, edits, calls>>

Check(tool) == call.phase = "checking" /\ call.tool = tool

List ==
  /\ Check("filesystem.list")
  /\ IF disk[Place(call.target)] = Dir
       THEN /\ touched' = touched \cup {Place(call.target)}
            /\ Complete({Leaf(<<"entries", "name">>, Text("path", 1))})
       ELSE Fail /\ UNCHANGED touched
  /\ UNCHANGED <<disk, links, moved, edited, edits, calls>>

(* Mutant: at most one byte too many. *)
TooBigByMore(size) == size > MaxRead + 1

TooBig(size) == size > MaxRead

(* is_file() and stat(). *)
CheckRead ==
  /\ Check("filesystem.read")
  /\ IF disk[Place(call.target)] < 0 \/ TooBig(disk[Place(call.target)])
       THEN Fail
       ELSE call' = [call EXCEPT !.phase = "reading"] /\ UNCHANGED log
  /\ edited' = FALSE
  /\ UNCHANGED <<disk, links, moved, touched, edits, calls>>

(* What a file of this size may hold. *)
FileTexts(size) ==
  {text \in [from : {"content"}, shown : {"text", "prefixed"}, chars : {size}] :
     text.shown = "prefixed" => size > 0}

(* read_text(): the file as it is by now. *)
Read ==
  /\ call.phase = "reading"
  /\ LET size == disk[Place(call.target)]
     IN  IF size < 0
           THEN Fail /\ UNCHANGED touched
           ELSE /\ \E text \in FileTexts(size) :
                     Log("tool.completed", Under("output", Redact({Leaf(<<"content">>, text)})))
                /\ call' = [call EXCEPT !.phase = "done", !.output = size]
                /\ touched' = touched \cup {Place(call.target)}
  /\ UNCHANGED <<disk, links, moved, edited, edits, calls>>

IsLink(l) == l # <<>> /\ Append(Place(Parent(l)), Last(l)) \in DOMAIN links

(* mkdir neither replaces a file nor creates what a link leads to.         *)
NoDirectory(l) == disk[Place(l)] >= 0 \/ (disk[Place(l)] = Absent /\ IsLink(l))

(* The content must be a string within the limit.  mkdir(parents=True)     *)
(* creates the directories that are missing on the way to the target.      *)
MakeParents ==
  /\ Check("filesystem.write")
  /\ IF \/ call.content.shown = "none" \/ call.content.chars > MaxWrite
        \/ \E l \in Parents(call.target) : NoDirectory(l)
       THEN Fail /\ UNCHANGED <<disk, touched>>
       ELSE LET missing == {l \in {Place(p) : p \in Parents(call.target)} : disk[l] = Absent}
            IN  /\ disk' = [l \in Locations |-> IF l \in missing THEN Dir ELSE disk[l]]
                /\ touched' = touched \cup missing
                /\ call' = [call EXCEPT !.phase = "writing"]
                /\ UNCHANGED log
  /\ UNCHANGED <<links, moved, edited, edits, calls>>

(* write_text() truncates, then writes; a full disk leaves a part.         *)
Write ==
  /\ call.phase = "writing"
  /\ LET place == Place(call.target)
     IN  IF disk[place] = Dir \/ (place # <<>> /\ disk[Parent(place)] # Dir)
           THEN Fail /\ UNCHANGED <<disk, touched>>
           ELSE /\ touched' = touched \cup {place}
                /\ \/ /\ disk' = [disk EXCEPT ![place] = call.content.chars]
                      /\ Complete({Leaf(<<"path">>, Text("path", 1))})
                   \/ /\ disk' = [disk EXCEPT ![place] = 0]
                      /\ Fail
  /\ UNCHANGED <<links, moved, edited, edits, calls>>

-----------------------------------------------------------------------------
(* Other processes, between two system calls of a tool.                    *)

External == edits < MaxEdits /\ call.phase # "idle" /\ edits' = edits + 1

(* Somebody creates, resizes or removes a file or an empty directory, but  *)
(* not the workspace root or what it is in.                                *)
Edit ==
  /\ External
  /\ \E l \in Locations \ OnWay(Root), size \in {Absent, Dir, 0, MaxRead, MaxRead + 1} :
       /\ l # <<>> /\ disk[Parent(l)] = Dir
       /\ disk[l] = Dir => \A m \in Locations : l \in Parents(m) => disk[m] = Absent
       /\ disk[l] # size
       /\ disk' = [disk EXCEPT ![l] = size]
       /\ edited' = (edited \/ l = Place(call.target))
  /\ UNCHANGED <<links, call, moved, touched, log, calls>>

(* Somebody puts a symbolic link in the place of a file or a directory, or *)
(* takes one away.                                                         *)
Relink ==
  /\ External
  /\ \E m \in LinkMaps \ {links} :
       /\ links' = m
       /\ moved' = (moved \/ \E l \in OnWay(call.target) : Walk(m, l) # Place(l))
       /\ edited' = (edited \/ Walk(m, call.target) # Place(call.target))
  /\ UNCHANGED <<disk, call, touched, log, calls>>

ToolStep ==
  \/ RequestApproval
  \/ Resolve
  \/ List
  \/ CheckRead
  \/ Read
  \/ MakeParents
  \/ Write
  \/ Return

ToolsNext ==
  \/ RequestTool
  \/ ToolStep
  \/ Edit
  \/ Relink

ToolsSpec == ToolsInit /\ [][ToolsNext]_toolVars

-----------------------------------------------------------------------------

(* Whatever relative, dotted, absolute or linked path an agent asks for,   *)
(* its call reads, lists, creates or writes a location outside the         *)
(* workspace - one whose name begins with the workspace's included - only  *)
(* if somebody else put a link on the way to the target, or took one away, *)
(* after the path was resolved and checked.                                *)
ConfinedUnlessRelinked == moved \/ \A l \in touched : IsPrefix(Root, l)

(* A file larger than max_read_bytes is read only if somebody else changed *)
(* it between the size check and the read.                                 *)
ReadsWithinLimit == call.phase = "done" /\ call.output > MaxRead => edited

(* What a file holds, or is to hold, gets into the run's log only where    *)
(* the whole content begins as a marker does: as argument or output, never *)
(* in the preview that is logged with the request for approval.            *)
ContentHiddenUnlessPrefixed ==
  \A e \in log : \A leaf \in e.payload :
    leaf.text.from = "content" => leaf.text.shown = "prefixed" /\ leaf.path # <<"preview">>

(* Whoever compares a call's request with its request for approval sees    *)
(* the same content marker: redacting twice does not measure the marker.   *)
MarkersAgree ==
  \A e, f \in log :
    e.call = f.call /\ e.type = "tool.requested" /\ f.type = "approval.requested" =>
      {leaf.text : leaf \in {x \in e.payload : x.path = <<"arguments", "content">>}}
        = {leaf.text : leaf \in {x \in f.payload : x.path = <<"redacted_arguments", "content">>}}

=============================================================================
