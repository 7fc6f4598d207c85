--------------------------- MODULE MCAggregation ---------------------------
(* Runs of up to three intervals on two streams. *)
EXTENDS Aggregation

Test(role, mode, protocol, retransmits, streams) ==
  [role |-> role, mode |-> mode, protocol |-> protocol, retransmits |-> retransmits,
   streams |-> streams]

Plain(t) == [test |-> t, prefix |-> <<"a">>, labels |-> << << <<"b">>, <<"a">> >> >>]

MCTests ==
  {Test("client", "sender", "tcp", TRUE, <<TRUE, TRUE>>),
   Test("client", "bidirectional", "tcp", TRUE, <<FALSE, TRUE>>),
   Test("server", "bidirectional", "tcp", TRUE, <<FALSE, TRUE>>),
   Test("client", "sender", "tcp", FALSE, <<TRUE>>),
   Test("server", "receiver", "udp", FALSE, <<FALSE, FALSE>>)}

(* Values of one and two characters, and names the encoder refuses. *)
MCCharacters == {"\\", "\"", "\n", "n", ",", "}"}
MCAlphabet == MCCharacters \cup NameLetters \cup NameDigits
MCValues == {<<c>> : c \in MCCharacters} \cup {<<c, e>> : c, e \in MCCharacters}
MCLabels ==
  {<<>>, << << <<"0">>, <<"a">> >> >>, << << DoubleUnderscoreName, <<"a">> >> >>,
   << << <<"a">>, <<>> >> >>, << << <<"a">>, <<"a">> >>, << <<"a">>, <<"b">> >> >>}
  \cup {<< << <<"_", "0">>, v >>, << <<"a">>, <<"b">> >> >> : v \in MCValues}

MCRuns ==
  {Plain(t) : t \in MCTests}
  \cup {[Plain(Test("client", "sender", "udp", FALSE, <<TRUE>>)) EXCEPT !.labels = l] :
          l \in MCLabels}
  \cup {[Plain(Test("client", "sender", "tcp", FALSE, <<TRUE>>)) EXCEPT !.prefix = p] : p \in {<<>>, <<"0">>}}

Result(bytes, duration) ==
  [bytes |-> bytes, duration |-> duration, omitted |-> FALSE, retransmits |-> 0,
   rtt |-> -1, cwnd |-> 0, pmtu |-> -1, reorder |-> 0, epoch |-> "same",
   packets |-> 0, lost |-> 0, jitter |-> 0]

(* The interval is 20 long: 1 is short. *)
MCTcp ==
  {Result(0, 1), Result(0, 0),
   [Result(2, 20) EXCEPT !.rtt = 1, !.cwnd = 2, !.pmtu = 3, !.reorder = 1],
   [Result(1, 10) EXCEPT !.rtt = 4, !.pmtu = 0, !.retransmits = 1, !.reorder = 2, !.omitted = TRUE],
   [Result(1, 1) EXCEPT !.rtt = 2, !.reorder = 1, !.epoch = "new"],
   [Result(3, 20) EXCEPT !.epoch = "unknown", !.reorder = 1]}

MCUdp ==
  {Result(0, 1),
   [Result(2, 20) EXCEPT !.packets = 2, !.lost = 1, !.jitter = 3],
   [Result(1, 10) EXCEPT !.packets = 1, !.lost = -1, !.jitter = 1],
   [Result(1, 0) EXCEPT !.packets = 1, !.omitted = TRUE]}

MCResults(protocol) == IF protocol = "tcp" THEN MCTcp ELSE MCUdp
=============================================================================
