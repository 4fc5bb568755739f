---------------------------- MODULE MCCacheSystem -----------------------------
(***************************************************************************)
(* An instance of CacheSystem for TLC.  There is one tag more than there   *)
(* are ways, so that every set evicts.                                     *)
(***************************************************************************)
EXTENDS CacheSystem

\* Words are two lanes of one bit.  The first word of tag 0 is stored with a partial and
\* with the full strobe, its second word and the first word of tag 1 with the full one;
\* every word is loaded, and tag 2 is only loaded.
Patterns == {[l \in Lane |-> b] : b \in Byte}

SomeRequests ==
  {r \in DBusReq :
     \/ r.strobe = {} /\ r.data = ZeroWord
     \/ /\ r.data \in Patterns
        /\ \/ r.strobe = Lane /\ <<r.tag, r.offset>> \in {<<0, 1>>, <<1, 0>>}
           \/ r.strobe \in {{1}, Lane} /\ <<r.tag, r.offset>> = <<0, 0>>}
===============================================================================
