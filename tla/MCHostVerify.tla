---------------------------- MODULE MCHostVerify -----------------------------
(* Scenarios for HostVerify: a ring of three slots in words 0 to 11, data   *)
(* in words 12 to 15, one or two descriptors.                               *)
EXTENDS HostVerify

MCRow(op, data) == [op |-> op, data |-> data]
MCWord(op, index, data) == [op |-> op, index |-> index, data |-> data]

MCRing == <<MCRow("csr_baseaddr", 0), MCRow("csr_ringlen", 3)>>

MCPreload == <<MCWord("smem", 12, 101), MCWord("smem", 13, 102), MCWord("sram", 2, 201)>>

(* Uploads of two words and one, of a word nobody preloads; downloads of    *)
(* what an upload may have written and of what it overwrites; no words.     *)
MCDescs == {<<48, 0, 2, 1>>, <<52, 4, 1, 1>>, <<60, 8, 1, 1>>, <<4, 56, 2, 0>>, <<0, 52, 1, 0>>, <<48, 12, 0, 1>>}

MCDescRow(d) == [op |-> "desc", desc |-> d]

MCPosts == {<<MCDescRow(d)>> : d \in MCDescs} \cup {<<MCDescRow(d), MCDescRow(e)>> : d, e \in MCDescs}

MCEnable == <<[op |-> "enable"]>>

(* With and without preloaded words; without ENABLE; two that raise.        *)
MCScenarios ==
  {p \o MCRing \o q \o MCEnable : p \in {<<>>, MCPreload}, q \in MCPosts}
  \cup {MCPreload \o MCRing \o <<MCDescRow(d)>> : d \in MCDescs}
  \cup {MCRing \o MCEnable, MCPreload \o MCEnable \o <<MCDescRow(<<48, 0, 2, 1>>)>>, <<MCWord("sram", 4, 1)>>,
        <<MCRow("wait", 0)>>}
=============================================================================
