------------------------- MODULE MCSerialCollector -------------------------
(***************************************************************************)
(* A small instance of SerialCollector for TLC: at most two threads, three *)
(* uids, two devices, and command lines of every kind.                     *)
(***************************************************************************)
EXTENDS SerialCollector

CONSTANTS d1, d2, u1, u2, u3

Opt(o, v) == [opt |-> o, val |-> v]
Json(items) == <<Opt("config", items)>>
Named(more) == <<Opt("uid", u1), Opt("device", d1)>> \o more

JsonPort(u, d) == [uid |-> u, device |-> d]

Options ==
  { <<>>, Named(<<>>), <<Opt("uid", u1)>>, <<Opt("?", 0)>>,
    Named(<<Opt("help", 0)>>),
    Named(<<Opt("databits", 9)>>), Named(<<Opt("databits", 7)>>),
    Named(<<Opt("stopbits", 3)>>), Named(<<Opt("parity", "x")>>),
    Named(<<Opt("mindelay", -1)>>), Named(<<Opt("timeout", 0)>>),
    Named(<<Opt("maxlen", 0)>>), Named(<<Opt("maxlen", 1)>>),
    Named(<<Opt("baud", 1)>>) }

Files ==
  { Unreadable, <<>>,
    <<JsonPort(u1, d1), JsonPort(u2, d2)>>,
    <<JsonPort(u1, d1), [uid |-> u2]>>,             \* no device: skipped
    <<JsonPort(u1, d1), JsonPort(u1, d2)>>,         \* refused
    <<JsonPort(u1, d1), JsonPort(NULL, d2)>>,       \* "uid": null
    <<[device |-> d1]>>,                            \* no uid
    <<[device |-> d1], JsonPort(u2, d2)>>,
    <<JsonPort(u1, d1), JsonPort(u2, d2), JsonPort(u3, d1)>>,
    <<[uid |-> u1, device |-> d1, databits |-> 9, maxlen |-> -1],
      [uid |-> u2, device |-> d1, maxlen |-> 0]>> }

Lines == Options \cup {Json(f) : f \in Files}
                 \cup {Named(Json(<<JsonPort(u2, d2)>>))}

Symmetry == Permutations(Ctx) \cup Permutations(Fd)
=============================================================================
