----------------------------- MODULE MCMemoryPath -----------------------------
(***************************************************************************)
(* A cache of two lines and three tags, so that most accesses flush or     *)
(* fetch; the instruction side reads a line or a single word.             *)
(***************************************************************************)
EXTENDS MemoryPath

LineRequests ==
  {r \in DBusReq :
     \/ r.strobe = {} /\ r.data = ZeroWord /\ r.offset = 0
     \/ r.strobe = Lane /\ r.tag = 0 /\ r.offset = 1}

LineFetches ==
  {r \in CBusReq :
     /\ r.valid /\ ~r.is_write /\ r.tag = 0 /\ r.strobe = {} /\ r.data = ZeroWord
     /\ <<r.offset, r.len>> \in {<<0, LineLen>>, <<1, 1>>}}
===============================================================================
