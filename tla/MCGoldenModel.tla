---------------------------- MODULE MCGoldenModel ----------------------------
(* Scenarios for GoldenModel: data rows, the ring, up to three descriptors  *)
(* with another row somewhere between them, and ENABLE or not.              *)
EXTENDS GoldenModel

MCRow(op, data) == [op |-> op, data |-> data]

MCData == <<[op |-> "smem", index |-> 12, data |-> 101], [op |-> "smem", index |-> 13, data |-> 102],
            [op |-> "sram", index |-> 0, data |-> 201]>>

(* Both directions, one and two beats, LEN 0 and LEN 5 (cut to 1), a move   *)
(* into the ring, more beats than the mid FIFO holds, an address outside    *)
(* memory, one that is not a multiple of four.                              *)
MCDescs == {<<48, 4, 2, 1>>, <<4, 52, 2, 0>>, <<0, 48, 5, 0>>, <<48, 0, 0, 1>>,
            <<0, 16, 1, 0>>, <<48, 0, 3, 1>>, <<56, 0, 2, 3>>, <<0, 60, 2, 0>>, <<50, 0, 1, 1>>, <<48, 12, 2, 1>>}

MCOrdinary == {<<48, 4, 2, 1>>, <<4, 52, 2, 0>>, <<0, 48, 5, 0>>, <<48, 0, 0, 1>>, <<0, 16, 1, 0>>}

MCDescRows(D) == {[op |-> "desc", desc |-> d] : d \in D}

MCPosts == {<<a>> : a \in MCDescRows(MCDescs)}
           \cup {<<a, b>> : a, b \in MCDescRows(MCOrdinary)}
           \cup {<<a, b, c>> : a, b, c \in MCDescRows(MCOrdinary)}

(* Rows that may stand before, between and behind the descriptors.          *)
MCOther == {MCRow("csr_ringlen", n) : n \in {0, 2, 3}}
           \cup {MCRow("csr_baseaddr", 16), [op |-> "smem", index |-> 1, data |-> 4],
                 [op |-> "smem", index |-> 16, data |-> 4], [op |-> "sram", index |-> 4, data |-> 4],
                 [op |-> "wait"]}

MCRing(base, n) == <<MCRow("csr_baseaddr", base), MCRow("csr_ringlen", n)>>

MCEnable == <<[op |-> "enable"]>>

MCScenarios ==
  {MCData \o MCRing(0, n) \o p \o MCEnable : n \in {1, 2, 3, 4}, p \in MCPosts}
  \cup {MCData \o MCRing(base, 3) \o p \o MCEnable : base \in {2, 16}, p \in MCPosts}
  \cup {MCData \o MCRing(0, 3) \o p : p \in MCPosts}
  \cup {MCData \o MCRing(0, 3) \o InsertAt(p, k, o) \o MCEnable :
          <<p, k, o>> \in {<<q, i, r>> \in MCPosts \X (1 .. 3) \X MCOther : i <= Len(q)}}
  \cup {MCData \o MCRing(0, 3) \o Append(p, o) \o MCEnable : p \in MCPosts, o \in MCOther}
=============================================================================
