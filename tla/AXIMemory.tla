------------------------------ MODULE AXIMemory -------------------------------
(***************************************************************************)
(* The AXI slave at the far end of CBusToAXI.sv.  It is not part of the    *)
(* repository's own code: this is a memory that uses every freedom the AXI *)
(* protocol gives a slave with one burst at a time.  It may take write     *)
(* data before or after the write address, it stalls any channel for as    *)
(* long as it likes, and a burst written becomes visible with B only.      *)
(***************************************************************************)
EXTENDS CBus

VARIABLES
  mem,  \* mem[tag][index][offset]
  rd,   \* the read burst accepted: n words of it are sent
  wr    \* the write burst: whether its address is accepted, and the n words accepted

slaveVars == <<mem, rd, wr>>

ReadBurst  == [busy: BOOLEAN, tag: Tag, index: Index, start: Offset, len: {1, LineLen},
               n: 0 .. LineLen - 1]
Beat       == [data: Word, strobe: SUBSET Lane]
WriteBurst == [addressed: BOOLEAN, tag: Tag, index: Index, start: Offset, complete: BOOLEAN,
               n: 0 .. LineLen, beats: [Offset -> Beat]]

NoRead  == [busy |-> FALSE, tag |-> 0, index |-> CHOOSE i \in Index : TRUE, start |-> 0,
            len |-> 1, n |-> 0]
NoWrite == [addressed |-> FALSE, tag |-> 0, index |-> CHOOSE i \in Index : TRUE, start |-> 0,
            complete |-> FALSE, n |-> 0,
            beats |-> [o \in Offset |-> [data |-> ZeroWord, strobe |-> {}]]]

SlaveTypeOK ==
  /\ mem \in [Tag -> [Index -> [Offset -> Word]]]
  /\ rd \in ReadBurst
  /\ wr \in WriteBurst

SlaveInit ==
  /\ mem = [t \in Tag |-> [i \in Index |-> [o \in Offset |-> ZeroWord]]]
  /\ rd = NoRead
  /\ wr = NoWrite

\* A wrapping burst: the word of beat k, and the beat of word o.
BeatWord(start, k) == IF start + k < LineLen THEN start + k ELSE start + k - LineLen
WordBeat(start, o) == IF start <= o THEN o - start ELSE o - start + LineLen

\* A line once the first n beats of a write are merged into it.
Written(line, start, n, beats) ==
  [o \in Offset |-> IF WordBeat(start, o) < n
                    THEN Merge(line[o], beats[WordBeat(start, o)].data,
                               beats[WordBeat(start, o)].strobe)
                    ELSE line[o]]

\* What the slave may drive: data after the address, B after the address and all data.
SlaveDrives(axi) ==
  /\ "R" \in axi.on =>
       /\ rd.busy
       /\ axi.rdata = mem[rd.tag][rd.index][BeatWord(rd.start, rd.n)]
       /\ axi.rlast = (rd.n = rd.len - 1)
  /\ "B" \in axi.on => wr.addressed /\ wr.complete

\* The channels handshaken in a cycle: the address channels carry `saved`, W carries
\* `beat` and wlast.
ReadChannels(done, saved) ==
  rd' = IF "AR" \in done
        THEN [busy |-> TRUE, tag |-> saved.tag, index |-> saved.index, start |-> saved.offset,
              len |-> saved.len, n |-> 0]
        ELSE IF "R" \in done
        THEN IF rd.n = rd.len - 1 THEN NoRead ELSE [rd EXCEPT !.n = @ + 1]
        ELSE rd

WriteChannels(done, saved, beat, wlast) ==
  IF "B" \in done
  THEN /\ mem' = [mem EXCEPT ![wr.tag][wr.index] = Written(@, wr.start, wr.n, wr.beats)]
       /\ wr' = NoWrite
  ELSE /\ wr' = LET a == IF "AW" \in done
                         THEN [wr EXCEPT !.addressed = TRUE, !.tag = saved.tag,
                                         !.index = saved.index, !.start = saved.offset]
                         ELSE wr
                IN  IF "W" \in done
                    THEN [a EXCEPT !.beats[wr.n] = beat, !.n = @ + 1, !.complete = wlast]
                    ELSE a
       /\ UNCHANGED mem
===============================================================================
