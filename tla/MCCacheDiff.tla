----------------------------- MODULE MCCacheDiff ------------------------------
(***************************************************************************)
(* A small instance with the proportions of the code: a line of the cache  *)
(* is as long as all sets of the reference model together, so that the     *)
(* words of one line lie in different sets there.  There is one tag more   *)
(* than the cache has ways, and two more than the reference model has.     *)
(***************************************************************************)
EXTENDS CacheDiff

\* One word of every line of the cache is loaded; that of tag 0 is stored to with every
\* value, and a word of tag 1 that lies in the other set of the reference model is set.
WordRequests ==
  {r \in DBusReq :
     \/ r.strobe = {} /\ r.data = ZeroWord /\ r.offset = 1
     \/ r.strobe = Lane /\ <<r.tag, r.offset>> = <<0, 1>>
     \/ r.strobe = Lane /\ <<r.tag, r.offset>> = <<1, 2>> /\ r.data # ZeroWord}
===============================================================================
