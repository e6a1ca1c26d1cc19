------------------------------ MODULE MCAiReader ------------------------------
(* Instances of AiReader for TLC. *)
EXTENDS AiReader

(* Bytes of two bits: values up to two bytes long, and one whose length    *)
(* needs the second byte of the header.                                    *)
MCPayloads == {<<>>, <<3>>, <<3, 0, 3, 1>>}

(* Bytes of eight bits. *)
MCPayloads8 == {<<0>>, <<123>>, <<255>>}

=============================================================================
