----------------------------- MODULE MCFullTcp -----------------------------
(***************************************************************************)
(* The setups TLC tries: flows of a few segments of two sequence numbers.  *)
(***************************************************************************)
EXTENDS FullTcp

FromSender(lengths) == [sender |-> lengths, receiver |-> <<>>]
BothWays == [n \in Agents |-> <<2 * MaxSeg>>]

Setup(wnd_init, segs_per_ack, lengths, close_by, network) ==
    [wnd |-> 4, wnd_init |-> wnd_init, segs_per_ack |-> segs_per_ack, flows |-> lengths,
     close_by |-> close_by, marks |-> network[1], losses |-> network[2],
     overtaken |-> network[3], early |-> network[4]]

\* A network is <<marks, losses, overtaken, early>>.
SetupsOK ==
    { \* five segments, SACK recovery and cuts
      Setup(2, 0, FromSender(<<10>>), "never", <<1, 2, 1, 0>>),
      \* delayed ACKs, an initial window beyond the receiver's, an early timeout
      Setup(5, 2, FromSender(<<10>>), "never", <<1, 1, 0, 1>>),
      \* DCTCP's echo, any of the data marked
      Setup(2, 2, FromSender(<<10>>), "never", <<5, 0, 0, 0>>),
      \* data in both directions
      Setup(2, 2, BothWays, "never", <<1, 1, 0, 0>>),
      \* the user closes when the flow is through, or at any time
      Setup(2, 0, FromSender(<<6>>), "done", <<0, 2, 1, 1>>),
      Setup(2, 0, FromSender(<<6>>), "user", <<0, 2, 0, 1>>),
      \* MSG_EOF with the second flow
      Setup(2, 2, FromSender(<<4, 4>>), "empty", <<0, 2, 0, 1>>) }
=============================================================================
