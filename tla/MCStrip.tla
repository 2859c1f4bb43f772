------------------------------ MODULE MCStrip ------------------------------
(***************************************************************************)
(* Strip for TLC.                                                          *)
(***************************************************************************)
EXTENDS Strip, LinkImages

MCNumberName(n) == ToString(n)
MCStartsWith(name, prefix) ==
    Len(name) >= Len(prefix) /\ SubSeq(name, 1, Len(prefix)) = prefix

MCOriginals == <<Linked, Library, TwiceLinked, HalfLinked, Main, Rival, EdgeLinked, Plain, Malformed>>
=============================================================================
