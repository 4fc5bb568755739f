------------------------------- MODULE Confreg --------------------------------
(***************************************************************************)
(* The peripherals of the simulator (src/verilate/source/confreg.cpp)      *)
(* within MyCPU::tick, the bus device in front of them, the checks made    *)
(* after each cycle, and the thread that brings the characters of the      *)
(* terminal.                                                               *)
(*                                                                         *)
(* A tick is four steps, between which the thread may run: eval_resp and   *)
(* eval_req; the first half of Confreg::sync, under the lock; its second   *)
(* half; and CBusDevice::sync with checkout_confreg.  The program on the   *)
(* CPU makes uncached accesses in any order.  Characters and numbers are   *)
(* sent in ascending order, so that a repeated or a lost one shows.        *)
(* MaxTyped, MaxSent bound how many there are.                             *)
(***************************************************************************)
EXTENDS Naturals, Sequences

CONSTANTS MaxTyped, MaxSent

ASSUME ConfregAssumption == MaxTyped \in Nat /\ MaxSent \in Nat

VARIABLES
  step,     \* "reset", "resp", "pop", "settle" or "dev"
  enable,   \* of the bus device, in this cycle
  access,   \* the transaction in progress: tx
  next,     \* the one after the clock edge: ntx
  ctx,      \* the context the next sync looks at
  ctx0,     \* the context the checks look at
  ififo,    \* characters of the terminal
  reg,      \* the word of one of the plain registers
  changes,  \* stores not committed
  current   \* _current_num of the monitor

VARIABLES  \* what the outside has done and seen
  typed,    \* characters the thread has read
  missed,   \* those of before the reset
  got,      \* characters loads of RXD returned
  sent,     \* sent[d]: how many stores to TXD, VUART or NUM there were
  shown,    \* characters written to the terminal, and those printed
  latest,   \* the word last stored to the register
  loaded    \* the word a load of it returned in this cycle

confregVars == <<step, enable, access, next, ctx, ctx0, ififo, reg, changes, current,
                 typed, missed, got, sent, shown, latest, loaded>>

Out    == {"TXD", "VUART", "NUM"}
Idle   == [busy |-> FALSE, write |-> FALSE, addr |-> "REG", data |-> 0]
NoWord == 2

ConfregInit ==
  /\ step = "reset" /\ enable = TRUE /\ access = Idle /\ next = Idle
  /\ ctx = [avail |-> FALSE, fetched |-> FALSE, put |-> 0, show |-> 0, num |-> 0]
  /\ ctx0 = ctx
  /\ ififo = <<>> /\ reg = 0 /\ changes = <<>> /\ current = 0
  /\ typed = 0 /\ missed = 0 /\ got = <<>>
  /\ sent = [d \in Out |-> 0] /\ shown = [d \in {"TXD", "VUART"} |-> <<>>]
  /\ latest = 0 /\ loaded = NoWord

\* The thread pushes a character, under the lock.
Type ==
  /\ typed < MaxTyped
  /\ typed' = typed + 1
  /\ ififo' = Append(ififo, typed')
  /\ UNCHANGED <<step, enable, access, next, ctx, ctx0, reg, changes, current,
                 missed, got, sent, shown, latest, loaded>>

\* Confreg::reset forgets what was typed before.
ConfregReset ==
  /\ step = "reset"
  /\ step' = "resp"
  /\ ififo' = <<>>
  /\ missed' = typed
  /\ UNCHANGED <<enable, access, next, ctx, ctx0, reg, changes, current, typed, got, sent, shown, latest, loaded>>

\* Slip: the character is returned and not taken.
LoadKeeps(addr) ==
  /\ got' = IF addr = "RXD" /\ ctx.avail THEN Append(got, ififo[1]) ELSE got
  /\ loaded' = IF addr = "REG" THEN reg ELSE NoWord
  /\ UNCHANGED ctx

\* Confreg::load.  RXD without a character is 0, and LSR changes nothing.
Load(addr) ==
  /\ IF addr = "RXD" /\ ctx.avail THEN got' = Append(got, ififo[1]) /\ ctx' = [ctx EXCEPT !.fetched = TRUE]
                                  ELSE UNCHANGED <<got, ctx>>
  /\ loaded' = IF addr = "REG" THEN reg ELSE NoWord

\* What the program may ask for next.
Wanted ==
  {Idle} \cup {[busy |-> TRUE, write |-> FALSE, addr |-> d, data |-> 0] : d \in {"RXD", "REG"}}
         \cup {[busy |-> TRUE, write |-> TRUE, addr |-> d, data |-> sent[d] + 1] :
                 d \in {e \in Out : sent[e] < MaxSent}}
         \cup {[busy |-> TRUE, write |-> TRUE, addr |-> "REG", data |-> v] : v \in {0, 1}}

\* A transaction is one beat here, and a cycle of the device passes before the next.
Resp ==
  /\ step = "resp"
  /\ step' = "pop"
  /\ IF enable /\ access.busy /\ ~access.write THEN Load(access.addr)
                                               ELSE loaded' = NoWord /\ UNCHANGED <<got, ctx>>
  /\ IF ~enable THEN next' = access ELSE IF access.busy THEN next' = Idle ELSE next' \in Wanted
  /\ UNCHANGED <<enable, access, ctx0, ififo, reg, changes, current, typed, missed, sent, shown, latest>>

Pop ==
  /\ step = "pop"
  /\ step' = "settle"
  /\ ififo' = IF ctx.fetched THEN Tail(ififo) ELSE ififo
  /\ shown' = IF ctx.put # 0 THEN [shown EXCEPT !["TXD"] = Append(@, ctx.put)] ELSE shown
  /\ UNCHANGED <<enable, access, next, ctx, ctx0, reg, changes, current, typed, missed, got, sent, latest, loaded>>

\* ififo.empty() is asked without the lock: before or after a push, as it comes.
Settle ==
  /\ step = "settle"
  /\ step' = "dev"
  /\ ctx0' = ctx
  /\ ctx' = [ctx EXCEPT !.avail = ififo # <<>>, !.fetched = FALSE, !.put = 0, !.show = 0]
  /\ reg' = IF changes = <<>> THEN reg ELSE changes[Len(changes)]
  /\ changes' = <<>>
  /\ UNCHANGED <<enable, access, next, ififo, current, typed, missed, got, sent, shown, latest, loaded>>

\* Confreg::store.
Store(addr, data) ==
  /\ ctx' = CASE addr = "TXD"   -> [ctx EXCEPT !.put = data]
              [] addr = "VUART" -> [ctx EXCEPT !.show = data]
              [] addr = "NUM"   -> [ctx EXCEPT !.num = data]
              [] addr = "REG"   -> ctx
  /\ sent' = IF addr \in Out THEN [sent EXCEPT ![addr] = @ + 1] ELSE sent
  /\ changes' = IF addr = "REG" THEN Append(changes, data) ELSE changes
  /\ latest' = IF addr = "REG" THEN data ELSE latest

\* checkout_confreg: the monitor, and the virtual terminal.
Checkout ==
  /\ current' = ctx0.num
  /\ shown' = IF ctx0.show # 0 THEN [shown EXCEPT !["VUART"] = Append(@, ctx0.show)] ELSE shown

Dev ==
  /\ step = "dev"
  /\ step' = "resp"
  /\ IF enable /\ access.busy /\ access.write
     THEN Store(access.addr, access.data)
     ELSE UNCHANGED <<ctx, sent, changes, latest>>
  /\ access' = next
  /\ enable' \in BOOLEAN
  /\ Checkout
  /\ loaded' = NoWord
  /\ UNCHANGED <<next, ctx0, ififo, reg, typed, missed, got>>

ConfregNext == Type \/ ConfregReset \/ Resp \/ Pop \/ Settle \/ Dev

ConfregSpec == ConfregInit /\ [][ConfregNext]_confregVars

-------------------------------------------------------------------------------
Ascending(from, to) == [i \in 1 .. to - from |-> from + i]

\* Characters pass once and in order, in all three directions: those typed since the reset
\* are with the program or wait in the queue, those stored are on the terminal or wait for
\* the next sync, and the assertions of sync and of the number monitor hold.  A load of a
\* register returns the last word stored to it.
PeripheralsInOrder ==
  LET fetched == ctx.fetched /\ step = "pop"
      waiting == IF fetched THEN Tail(ififo) ELSE ififo
      put     == IF ctx.put # 0 /\ step \in {"resp", "pop"} THEN <<ctx.put>> ELSE <<>>
      show    == IF ctx.show # 0 THEN <<ctx.show>>
                 ELSE IF ctx0.show # 0 /\ step = "dev" THEN <<ctx0.show>> ELSE <<>>
  IN step # "reset" =>
       /\ fetched => ififo # <<>>
       /\ got \o waiting = Ascending(missed, typed)
       /\ shown["TXD"] \o put = Ascending(0, sent["TXD"])
       /\ shown["VUART"] \o show = Ascending(0, sent["VUART"])
       /\ step = "dev" => ctx0.num \in {current, current + 1}
       /\ loaded \in {NoWord, latest}
===============================================================================
