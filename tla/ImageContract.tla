----------------------------- MODULE ImageContract -----------------------------
(***************************************************************************)
(* What the readers of a disk image promise to the NTFS walker: io.ReaderAt *)
(* over the virtual disk.  A call is answered once, with a prefix of what   *)
(* the disk holds at the offset; EOF means the end of the disk.             *)
(***************************************************************************)
EXTENDS Integers, Sequences

CONSTANTS Zero,       \* the byte 0
          Requests,   \* what may be asked: [off, len]
          None

VARIABLES disk,      \* the virtual disk, a sequence of bytes
          cut,       \* offsets whose bytes the image file has lost to truncation
          reported,  \* an answer cut short by the end of the disk carries an error
          ask, ans

\* The first n bytes at an offset; a lost one may be answered as zero.
Slices(off, n) ==
  {[i \in 1..n |-> IF i \in z THEN Zero ELSE disk[off + i]] :
      z \in SUBSET {i \in 1..n : off + i - 1 \in cut}}

Answers(r, n) ==
  [bytes : Slices(r.off, n),
   err : {"err"} \cup (IF r.off + n >= Len(disk) \/ r.off + n \in cut THEN {"eof"} ELSE {})
                 \cup (IF n = r.len \/ (~reported /\ r.off + n >= Len(disk))
                       THEN {"nil"} ELSE {})]

Fits(r, n) == n = 0 \/ (r.off >= 0 /\ r.off + n <= Len(disk))

Init == ask = None /\ ans = None

Ask == ask = None /\ ask' \in Requests /\ UNCHANGED ans

Answer == /\ ask # None /\ ans = None /\ UNCHANGED ask
          /\ \E n \in 0..ask.len : Fits(ask, n) /\ ans' \in Answers(ask, n)

Take == ans # None /\ ask' = None /\ ans' = None

Next == (Ask \/ Answer \/ Take) /\ UNCHANGED <<disk, cut, reported>>
Spec == Init /\ [][Next]_<<disk, cut, reported, ask, ans>>
=============================================================================
