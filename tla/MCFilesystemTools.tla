-------------------------- MODULE MCFilesystemTools -------------------------
(* A workspace /srv/ws with a file, beside it a directory whose name       *)
(* begins with "ws".                                                       *)
EXTENDS FilesystemTools

MCRoot == <<"srv", "ws">>
Sibling == <<"srv", "ws2">>

MCLocations == {<<>>, <<"srv">>, <<"srv", "a">>, Sibling, Sibling \o <<"a">>, MCRoot,
                MCRoot \o <<"a">>, MCRoot \o <<"d">>, MCRoot \o <<"d", "a">>}

MCDisk0 == [l \in MCLocations |->
              CASE l = MCRoot \o <<"a">> -> 2
                [] l = Sibling \o <<"a">> -> 1
                [] l \in {<<"srv", "a">>, MCRoot \o <<"d">>, MCRoot \o <<"d", "a">>} -> Absent
                [] OTHER -> Dir]

(* The links that lead out of the workspace: one that was always there,    *)
(* and with it one in the place of the directory or of the file.           *)
LinksAt(names) == [l \in {MCRoot \o <<n>> : n \in names} |->
                     IF Last(l) = "a" THEN Sibling \o <<"a">> ELSE Sibling]
MCLinkMaps == {LinksAt({"link"}), LinksAt({"link", "d"}), LinksAt({"link", "a"})}

MCNamePrefixes == {<<"ws", "ws2">>}

Relative(names) == [absolute |-> FALSE, names |-> names]

MCRawPaths ==
  {Relative(names) : names \in {<<>>, <<".">>, <<"a">>, <<"d", "a">>, <<"d", "..", "a">>,
                                <<"..">>, <<"..", "ws2", "a">>, <<"link", "a">>, <<"link", "..", "ws">>}}
    \cup {[absolute |-> TRUE, names |-> MCRoot \o <<"a">>],
          [absolute |-> TRUE, names |-> Sibling]}

MCContents == {Text("content", 3), Text("content", 5),
               [from |-> "content", shown |-> "prefixed", chars |-> 2],
               [from |-> "none", shown |-> "none", chars |-> 0]}
=============================================================================
