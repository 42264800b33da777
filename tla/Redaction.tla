----------------------------- MODULE Redaction ------------------------------
(***************************************************************************)
(* telemetry/redaction.py: what an event payload shows of the values it    *)
(* was made from.  A value is the set of its leaves, each a text at the    *)
(* path of keys that leads to it, so that the recursion over mappings and  *)
(* sequences is a condition on paths.  A text is where it comes from, how  *)
(* it is shown and its number of characters; a text that comes from a file *)
(* or from the content argument of a tool call is "content".  It is shown  *)
(* as it is ("text", or "prefixed" if it begins with "<redacted "), as a   *)
(* marker that redact made, or there is none.                              *)
(***************************************************************************)
EXTENDS Integers, Sequences, FiniteSets

CONSTANT MaxLogString   \* MAX_LOG_STRING_LENGTH

ASSUME MaxLogStringAssumption == MaxLogString \in Nat

Text(from, chars) == [from |-> from, shown |-> "text", chars |-> chars]
Leaf(path, text) == [path |-> path, text |-> text]

(* Mutant: the approval preview is not on the list. *)
SensitiveButPreview == {"api_key", "authorization", "content", "password", "secret", "token"}

(* The keys that contain a SENSITIVE_KEY_PARTS entry, of those in use.     *)
Sensitive == {"api_key", "authorization", "content", "password", "preview", "secret", "token"}

SuffixLength == 24   \* "...<truncated N chars>"

Truncate(text, max) ==
  IF text.chars <= max THEN text ELSE [text EXCEPT !.chars = max + SuffixLength]

Markers == {"redacted string", "redacted dict", "redacted NoneType"}

(* value.startswith("<redacted "): redact goes by how a string begins, not *)
(* by who made it.  Truncation keeps the beginning.                        *)
BeginsAsMarker(text) == text.shown \in Markers \cup {"prefixed"}

(* Mutant: a marker is redacted like any other string. *)
MarkerOfMarker(text) ==
  [from |-> "marker", shown |-> "redacted string",
   chars |-> IF text.shown \in Markers THEN 27 ELSE text.chars]

(* _redacted_marker of a string, or of None. *)
StringMarker(text) ==
  CASE BeginsAsMarker(text) -> text
    [] text.shown = "none" -> [from |-> "marker", shown |-> "redacted NoneType", chars |-> 0]
    [] OTHER -> [from |-> "marker", shown |-> "redacted string", chars |-> text.chars]

DictMarker == [from |-> "marker", shown |-> "redacted dict", chars |-> 0]

(* The first sensitive key on the way to a leaf hides all that is below.   *)
SensitiveAt(leaf) == {i \in DOMAIN leaf.path : leaf.path[i] \in Sensitive}

RedactLeaf(leaf) ==
  IF SensitiveAt(leaf) = {}
    THEN [leaf EXCEPT !.text = Truncate(@, MaxLogString)]
    ELSE LET first == CHOOSE i \in SensitiveAt(leaf) : \A j \in SensitiveAt(leaf) : i <= j
         IN  Leaf(SubSeq(leaf.path, 1, first),
                  IF first = Len(leaf.path) THEN StringMarker(leaf.text) ELSE DictMarker)

Redact(value) == {RedactLeaf(leaf) : leaf \in value}

(* A value under a key of a mapping. *)
Under(key, value) == {Leaf(<<key>> \o leaf.path, leaf.text) : leaf \in value}

(* approval_preview: "Path: ...", then the content; None unless a          *)
(* filesystem.write has a string to write.                                 *)
Preview(action, content) ==
  Leaf(<<"preview">>,
       IF action = "filesystem.write" /\ content.shown # "none"
         THEN [content EXCEPT !.shown = "text"]
         ELSE [from |-> "none", shown |-> "none", chars |-> 0])

=============================================================================
