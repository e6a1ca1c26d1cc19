------------------------------- MODULE AiReader -------------------------------
(***************************************************************************)
(* TLVReader of ai_receiver.py, which a comment calls consistent with the  *)
(* C reader, fed with the same stream: the programs that pack do not know    *)
(* which of the two will read.  It keeps the body in the object, so that   *)
(* calls may cut the stream anywhere, it returns a packet whatever the     *)
(* checksum is, and it expects at least one byte of body.                  *)
(***************************************************************************)
EXTENDS TlvReader

VARIABLES
  py,        \* the TLVReader object of the connection
  returned   \* history: what its feed() has returned, and on which packet

linkVars == <<vars, py, returned>>

(* __init__() *)
NewReader == [state |-> "HEADER", header |-> <<>>, tag |-> 0, length |-> 0, body |-> <<>>]

LinkInit ==
  /\ Init
  /\ py = NewReader
  /\ returned = {}

(* feed() with one byte, as handle_client() calls it. *)

PyFeedHeader(byte) ==
  LET header == Append(py.header, byte)
  IN  /\ py.state = "HEADER"
      /\ py' = IF Len(header) < TLV_HEADER_SIZE
               THEN [py EXCEPT !.header = header]
               ELSE [state |-> "BODY", header |-> header, tag |-> header[1],
                     length |-> header[2] * Base + header[3], body |-> <<>>]
      /\ UNCHANGED returned

(* Mutant: the length is compared before the byte is stored. *)
PyFeedBodyLate(byte) ==
  /\ py.state = "BODY"
  /\ py' = [py EXCEPT !.body = Append(@, byte),
                      !.state = IF Len(py.body) = py.length THEN "CRC" ELSE "BODY"]
  /\ UNCHANGED returned

PyFeedBody(byte) ==
  /\ py.state = "BODY"
  /\ py' = [py EXCEPT !.body = Append(@, byte),
                      !.state = IF Len(py.body) + 1 = py.length THEN "CRC" ELSE "BODY"]
  /\ UNCHANGED returned

(* The checksum is computed and not looked at. *)
PyFeedCrc(byte) ==
  /\ py.state = "CRC"
  /\ py' = [py EXCEPT !.state = "HEADER", !.header = <<>>, !.body = <<>>]
  /\ returned' = returned \cup {[at |-> k + 1, tag |-> py.tag, value |-> py.body]}

LinkFeed ==
  /\ Feed
  /\ LET byte == tlv_pack(packed[k + 1])[p + 1]
     IN  PyFeedHeader(byte) \/ PyFeedBody(byte) \/ PyFeedCrc(byte)

(* Each connection gets its own reader. *)
LinkReconnect ==
  /\ Reconnect
  /\ py' = NewReader
  /\ UNCHANGED returned

LinkNext ==
  \/ \E packer \in Packers, tag \in Tags, value \in Payloads :
       Send(packer, tag, value) /\ UNCHANGED <<py, returned>>
  \/ LinkFeed
  \/ NewCall /\ UNCHANGED <<py, returned>>
  \/ LinkReconnect

LinkSpec == LinkInit /\ [][LinkNext]_linkVars

-----------------------------------------------------------------------------
(* Properties *)

Answer(i) == [at |-> i, tag |-> packed[i].tag, value |-> packed[i].value]

(* An empty packet went before i, or is i, on the same connection. *)
AfterEmpty(i) ==
  \E j \in 1 .. i :
    packed[j].value = <<>> /\ \A l \in j .. i : verdicts[l].kind # "lost"

(* However the calls cut the stream, the Python reader returns only what   *)
(* was packed, on its last byte; and every packet that arrived, unless an  *)
(* empty one was on the connection.                                        *)
PyReaderExact ==
  /\ returned \subseteq {Answer(i) : i \in 1 .. k}
  /\ \A i \in 1 .. k : verdicts[i].kind # "lost" /\ ~AfterEmpty(i) => Answer(i) \in returned

(* ai_receiver.py:107 calls TLVReader consistent with tlv_reader_t: each   *)
(* packet that the C reader delivers, it returns as well.                  *)
ReadersConsistent ==
  \A i \in 1 .. k : verdicts[i].kind = "packet" => \E r \in returned : r.at = i

=============================================================================
