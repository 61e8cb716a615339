------------------------------ MODULE RunList ------------------------------
(***************************************************************************)
(* Decoding of data runs, the cluster map of a file (runlist.rs).  A byte  *)
(* has Nibble * Nibble values and a number at most MaxWidth bytes (16 and  *)
(* 8 on NTFS), so that every edge of the arithmetic is within reach: an    *)
(* unsigned number is below Above, a signed one at least -Above \div 2.    *)
(***************************************************************************)
EXTENDS Integers, Sequences, FiniteSets, SequencesExt

CONSTANTS Nibble, MaxWidth   \* MaxWidth \in 1 .. Nibble - 1: a width fits half a byte

Byte == Nibble * Nibble
Above == Byte ^ MaxWidth
NoLcn == -1    \* a sparse run

\* read_uint: little endian, as many bytes as there are; the caller checks the length
ReadUint(bytes, at, size) ==
  FoldRight(LAMBDA b, v : b + Byte * v, SubSeq(bytes, at, at + size - 1), 0)

\* read_int: the top bit of the last byte is the sign
ReadInt(bytes, at, size) ==
  LET raw == ReadUint(bytes, at, size)
  IN  IF 2 * raw >= Byte ^ size THEN raw - Byte ^ size ELSE raw

\* RunList::parse, one entry: from [pos, vcn, lcn, runs, is] to the next
ParseRun(bytes, max, p) ==
  LET len == bytes[p.pos] % Nibble
      off == bytes[p.pos] \div Nibble
      fits == len \in 1 .. MaxWidth /\ off <= MaxWidth /\ p.pos + len + off <= Len(bytes)
      length == ReadUint(bytes, p.pos + 1, len)
      lcn == IF off = 0 THEN p.lcn ELSE p.lcn + ReadInt(bytes, p.pos + 1 + len, off)
      sound == /\ lcn \in 0 .. (Above \div 2) - 1
               /\ length > 0 /\ p.vcn + length < Above /\ p.vcn + length <= max
  IN  IF ~fits THEN [p EXCEPT !.is = "refused"]
      ELSE IF ~sound THEN [p EXCEPT !.is = "refused"]
      ELSE [pos |-> p.pos + 1 + len + off, vcn |-> p.vcn + length, lcn |-> lcn, is |-> "reading",
            runs |-> Append(p.runs, [vcn |-> p.vcn, lcn |-> IF off = 0 THEN NoLcn ELSE lcn, length |-> length])]

\* until the terminator or the end
Parse(bytes, max) ==
  LET start == [pos |-> 1, vcn |-> 0, lcn |-> 0, runs |-> <<>>, is |-> "reading"]
      at[n \in 0 .. Len(bytes)] ==
        IF n = 0 THEN start
        ELSE LET p == at[n - 1]
             IN  IF p.is # "reading" THEN p
                 ELSE IF p.pos > Len(bytes) THEN [p EXCEPT !.is = "read"]
                 ELSE IF bytes[p.pos] = 0 THEN [p EXCEPT !.is = "read"]
                 ELSE ParseRun(bytes, max, p)
      end == at[Len(bytes)]
  IN  [runs |-> IF end.is = "refused" THEN <<>> ELSE end.runs, is |-> IF end.is = "refused" THEN "refused" ELSE "read"]

ClusterCount(runs) == FoldLeft(LAMBDA n, r : n + r.length, 0, runs)

-----------------------------------------------------------------------------
(***************************************************************************)
(* The format, from the side that writes it.                               *)
(***************************************************************************)
LittleEndian(n, size) == [i \in 1 .. size |-> (n \div Byte ^ (i - 1)) % Byte]

\* The widths a number may be written with.
Widths(n, signed) ==
  {k \in 1 .. MaxWidth : IF signed THEN 2 * n < Byte ^ k /\ - 2 * n <= Byte ^ k ELSE n < Byte ^ k}

\* One run behind another that ended at `from`, in the widths wl and wo.
WriteRun(run, from, wl, wo) ==
  IF run.lcn = NoLcn THEN <<wl>> \o LittleEndian(run.length, wl)
  ELSE <<wl + Nibble * wo>> \o LittleEndian(run.length, wl) \o LittleEndian((run.lcn - from) % Byte ^ wo, wo)

\* Every way of writing two runs: as far apart as numbers go, backwards, with
\* a hole before or behind them.
Written(one, two) ==
  LET from == IF one.lcn = NoLcn THEN 0 ELSE one.lcn
      Wo(run, at) == IF run.lcn = NoLcn THEN {1} ELSE Widths(run.lcn - at, TRUE)
  IN  {WriteRun(one, 0, a, b) \o WriteRun(two, from, c, d) \o <<0>> :
         a \in Widths(one.length, FALSE), b \in Wo(one, 0), c \in Widths(two.length, FALSE), d \in Wo(two, from)}

\* What was written is read back: the clusters, in order, whatever the widths
\* and however far back a run lies from the one before it, as long as there
\* are not more of them than the caller allows.
ReadAsWritten(one, two) ==
  LET runs == <<[one EXCEPT !.vcn = 0], [two EXCEPT !.vcn = one.length]>>
      total == one.length + two.length
  IN  \A bytes \in Written(one, two) :
        /\ total < Above => Parse(bytes, total) = [runs |-> runs, is |-> "read"]
        /\ Parse(bytes, total - 1).is = "refused"

\* Whatever the bytes are, what is read covers the file from its start without
\* a gap or an overlap, on the disk, and no more of it than the caller allows.
NeverBeyond(bytes, max) ==
  LET runs == Parse(bytes, max).runs
  IN  /\ ClusterCount(runs) <= max
      /\ \A i \in DOMAIN runs :
           /\ runs[i].length > 0 /\ runs[i].lcn >= NoLcn /\ runs[i].lcn < Above \div 2
           /\ runs[i].vcn = ClusterCount(SubSeq(runs, 1, i - 1))

=============================================================================
