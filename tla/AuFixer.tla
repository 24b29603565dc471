------------------------------- MODULE AuFixer -------------------------------
(***************************************************************************)
(* AuFixer (subscreen_sender.cpp): finds the NAL units of an access unit   *)
(* by their start codes and puts the last SPS and PPS in front of a key    *)
(* frame that comes without.  Bytes are numbers; a NAL unit's first byte   *)
(* is its type.                                                            *)
(***************************************************************************)
EXTENDS Integers, Sequences

Idr == 5
Sps == 7
Pps == 8

\* Start codes of three and four bytes.
Code3(au, i) == i + 2 =< Len(au) /\ SubSeq(au, i, i + 2) = <<0, 0, 1>>
Code4(au, i) == i + 3 =< Len(au) /\ SubSeq(au, i, i + 3) = <<0, 0, 0, 1>>

\* Slip: only the short start code ends a unit.
NalEndShort(au, i) ==
  LET stops == {n \in i + 1 .. Len(au) : Code3(au, n)}
  IN IF stops = {} THEN Len(au) ELSE (CHOOSE n \in stops : \A k \in stops : n =< k) - 1

\* The unit that begins at i reaches to the next start code.
NalEnd(au, i) ==
  LET stops == {n \in i + 1 .. Len(au) : Code3(au, n) \/ Code4(au, n)}
  IN IF stops = {} THEN Len(au) ELSE (CHOOSE n \in stops : \A k \in stops : n =< k) - 1

\* The scan looks as long as four bytes are left.  A long code holds a short
\* one, so at its first byte the unit comes out empty and is passed over.
Nals(au) ==
  LET skip(i) == IF Code3(au, i) THEN 3 ELSE 4
      codes == {i \in 1 .. Len(au) - 3 : Code3(au, i) \/ Code4(au, i)}
  IN {[type |-> au[i + skip(i)], from |-> i, to |-> NalEnd(au, i)]
        : i \in {j \in codes : NalEnd(au, j) >= j + skip(j)}}

Has(nals, type) == \E n \in nals : n.type = type

\* The last unit of a type with its start code, or what was kept before.
Kept(au, nals, type, old) ==
  LET found == {n \in nals : n.type = type}
      last == CHOOSE n \in found : \A k \in found : k.from =< n.from
  IN IF found = {} THEN old ELSE SubSeq(au, last.from, last.to)

\* Process, with the parameter sets kept after this unit.
Fixed(au, nals, sps, pps) ==
  IF Has(nals, Idr) /\ ~Has(nals, Sps) /\ sps # <<>> /\ pps # <<>>
  THEN sps \o pps \o au ELSE au

=============================================================================
