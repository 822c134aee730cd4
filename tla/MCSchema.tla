------------------------------ MODULE MCSchema ------------------------------
(***************************************************************************)
(* Instances of Schema for TLC: the stores that builds v1 to v9 have left  *)
(* behind.                                                                 *)
(***************************************************************************)
EXTENDS Schema, SequencesExt

CONSTANTS p1, p2, a, b

MCProcs == {p1, p2}
MCNames == {a, b}

Held(n, seen, token, v) == [name |-> n, seen |-> seen, token |-> token, hashed |-> v >= 7]

\* The tables as version v created or migrated them.
Left(v, rows, meta, reader) ==
  [agents |-> CASE v = 0 -> {}
                [] v = 1 -> {"iso", "token"}
                [] OTHER -> {"ms", IF v >= 7 THEN "hash" ELSE "token"}
                              \cup (IF v >= 5 THEN {"status"} ELSE {})
                              \cup (IF v >= 6 THEN {"session"} ELSE {})
                              \cup (IF v >= 9 THEN {"wake"} ELSE {}),
   messages |-> CASE v = 0 -> {}
                  [] v = 1 -> {"iso"}
                  [] OTHER -> {"ms"} \cup (IF v >= 3 THEN {"lifecycle"} ELSE {})
                                \cup (IF v >= 4 THEN {"headline"} ELSE {})
                                \cup (IF v >= 8 THEN {"auth"} ELSE {})
                                \cup (IF v >= 9 THEN {"withdraw"} ELSE {}),
   claims |-> v >= 9, rows |-> rows, meta |-> meta, reader |-> reader]

\* No database yet; every released version; a pre-release v9; a fresh init
\* that crashed before its stamp; a restored file with a stale user_version.
MCStarts ==
  {Left(0, <<>>, 0, 0)}
    \cup {Left(v, <<Held(a, 1, 1, v)>>, 0, IF v = 1 THEN 0 ELSE v) : v \in 1..8}
    \cup {Left(9, <<Held(a, 1, 1, 9)>>, 0, 9),
          Left(9, <<>>, 0, 0),
          Left(9, <<Held(a, 1, 1, 9)>>, 9, 0)}
    \cup {Left(1, <<Held(a, 1, 1, 1), Held(b, 1, 2, 1), Held(a, 2, 3, 1)>>, 0, 0)}

ASSUME MCLatestLast == LatestLast(MCStarts)

\* The copy of _migrate_v1_to_v2 as it runs, one INSERT after the other.
InsertOrMerge(rows, r) ==
  LET i == SelectInSeq(rows, LAMBDA x : x.name = r.name)
  IN  IF i = 0 THEN Append(rows, r)
      ELSE [rows EXCEPT ![i] = [r EXCEPT !.seen = Max({@, rows[i].seen})]]

\* It leaves the rows that Merged says, of every v1 table of up to four rows.
ASSUME MergedIsTheCopy ==
  \A len \in 0..4 : \A name \in [1..len -> MCNames], seen \in [1..len -> 1..2] :
    LET rows == [i \in 1..len |-> Held(name[i], seen[i], i, 1)]
    IN  Range(FoldLeft(InsertOrMerge, <<>>, rows)) = Range(Merged(rows))

\* What MCLatestLast leaves out: with the newer of two rows first, the copy
\* keeps its last_seen and the older row's token.
ASSUME NewestFirstLosesItsToken ==
  FoldLeft(InsertOrMerge, <<>>, <<Held(a, 2, 1, 1), Held(a, 1, 2, 1)>>) = <<Held(a, 2, 2, 1)>>
=============================================================================
