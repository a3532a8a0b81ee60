------------------------------- MODULE MCWasi -------------------------------
(***************************************************************************)
(* The libraries of WASM programs for the network and for processes, for    *)
(* TLC: small instances of WasiHttp (urls with every kind of host and port, *)
(* replies with every framing) and WasiProcess (programs of at most three   *)
(* steps, one more of four).  A behaviour uses one library; the other one   *)
(* stays as it began.                                                       *)
(***************************************************************************)
EXTENDS WasiHttp, WasiProcess

VARIABLE library

wasiVars == <<library, httpVars, processVars>>

MCUrls ==
  LET hosts == {<<"h">>, <<"[", ":", "]">>, <<"h", ":", "h">>, <<>>}
      ports == {<<>>, <<":", "80">>, <<":", "443">>, <<":", "8080">>, <<":", "x">>, <<":">>}
  IN  {<<s>> \o h \o p \o q : s \in {"http://", "https://"}, h \in hosts, p \in ports, q \in {<<>>, <<"/", "p", ":">>}}
        \cup {<<"ftp://", "h">>}
Texts == {<<>>, <<"a">>, <<"a", "CR", "LF">>, <<"a", "LF", "LF", "b">>, <<"LF", "LF", "LF", "a">>,
          <<"CR", "LF", "0", "a">>, <<"a", "LF", "LF", "LF">>, <<"a", "b", "CR">>,
          <<"LF", "LF", "LF", "LF", "LF">>}
MCReplies == [framing : {"length", "chunked", "overrun", "close", "big", "garbage"}, body : Texts]

MCLengthLine == [n \in 0 .. 5 |-> <<"len0", "len1", "len2", "len3", "len4", "len5">>[n + 1]]
MCSizeLine == [n \in 0 .. 2 |-> <<"0", "1", "2">>[n + 1]]

MCPrograms == BoundedSeq({"out", "err", "sleep"}, 3) \cup {<<"err", "err", "err", "out">>}

Http == library = "http" /\ UNCHANGED <<library, processVars>>
Process == library = "process" /\ UNCHANGED <<library, httpVars>>

Init ==
    /\ library \in {"http", "process"}
    /\ HttpInit /\ ProcessInit
    /\ library = "http" => kind = "timeout" /\ prog = <<>> /\ duration = 0

Next == (Http /\ HttpNext) \/ (Process /\ ProcessNext)

\* The client keeps going, the server answers or the connection ends, and the
\* host sends at least a token; the parent and the child run on their own host
\* threads and the clock goes on.  No call need fail or be made again.
FairSpec ==
    /\ Init /\ [][Next]_wasiVars
    /\ WF_wasiVars(Http /\ Step)
    /\ WF_wasiVars(Process /\ Parent /\ UNCHANGED faults)
    /\ WF_wasiVars(Process /\ ChildStep)
    /\ WF_wasiVars(Process /\ Tick)

\* Every exchange and every use of a child process comes to an end.
UsesEnd == ExchangeEnds /\ UseEnds
=============================================================================
