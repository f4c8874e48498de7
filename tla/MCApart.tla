------------------------------ MODULE MCApart ------------------------------
(***************************************************************************)
(* Values for three parts that stand apart: the start-time rules, the list *)
(* of the CMS and the certificate file.  They share no state, so that a    *)
(* behaviour is one of a single part, as "part" says.                      *)
(***************************************************************************)
EXTENDS StartTime, KeysetList, PdfCache, TLC

VARIABLE part

ApartInit ==
  /\ part \in {"start", "list", "file"}
  /\ Init /\ ListInit /\ CacheInit
  /\ part # "start" => now = Sunrise

ApartNext ==
  \/ part = "start" /\ Next /\ UNCHANGED <<listVars, cacheVars, part>>
  \/ part = "list" /\ ListNext /\ UNCHANGED <<vars, cacheVars, part>>
  \/ part = "file" /\ CacheNext /\ UNCHANGED <<vars, listVars, part>>

ApartSpec == ApartInit /\ [][ApartNext]_<<vars, listVars, cacheVars, part>>

Symmetry == Permutations(Download)

-----------------------------------------------------------------------------
(* A day of three hours of two minutes of two ticks, Vietnam an hour ahead *)
(* of UTC.                                                                 *)

StartDates == {1, 2}
Times == {0, Minute, Hour}
EndDates == {2, 3}
EndTimes == {0, Day - Minute}

\* At most one text of a body is not a date or time.
MCBody ==
  {b \in [product : {"AUTO", "MOTO"},
          NgayDau : StartDates \cup {Impossible, Garbled},
          GioDau : Times \cup {Impossible, Garbled},
          NgayCuoi : EndDates \cup {Impossible, Garbled},
          GioCuoi : EndTimes \cup {Impossible, Garbled},
          early : SUBSET {"NgayCuoi", "GioCuoi"},
          rest : BOOLEAN] :
     /\ b.product = "MOTO" => b.early \in {{}, {"NgayCuoi", "GioCuoi"}}
     /\ {b.NgayDau, b.NgayCuoi} \subseteq Nat \/ {b.GioDau, b.GioCuoi} \subseteq Nat
     /\ ~b.rest => {b.NgayDau, b.NgayCuoi, b.GioDau, b.GioCuoi} \subseteq Nat}

-----------------------------------------------------------------------------
\* A limit out of range, none, and one above the largest page.
Limits == {-1, 0, 9}

\* One document is a block longer than the others.
Lengths ==
  LET long == CHOOSE d \in Document : TRUE
  IN [d \in Document |-> IF d = long THEN Blocks ELSE Blocks - 1]
=============================================================================
