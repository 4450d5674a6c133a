----------------------------- MODULE ByteFiles ------------------------------
(***************************************************************************)
(* What file_layer promises about the contents of files, with no word about*)
(* blocks: a file is a sequence of bytes.  A write puts its bytes where it *)
(* was told to, and zeros between the old end and its first byte; one that *)
(* fails leaves the size as it was, and a failed cut may leave zeros from  *)
(* its offset on.  After a failed write or truncation the bytes behind the *)
(* end are no longer known to be zeros.                                    *)
(***************************************************************************)
EXTENDS Integers, Sequences

CONSTANTS Files, Offsets, Payloads, Absent

VARIABLES
    data,  \* the bytes of each file, or Absent
    rough  \* the files behind whose end other bytes than zeros may be

vars == <<data, rough>>

Init == data = [f \in Files |-> Absent] /\ rough = {}

Exists(f) == data[f] # Absent

Create(f) == ~ Exists(f) /\ data' = [data EXCEPT ![f] = <<>>] /\ UNCHANGED rough

Delete(f) == Exists(f) /\ data' = [data EXCEPT ![f] = Absent] /\ rough' = rough \ {f}

\* new is old with the bytes w put behind its first offset bytes.
Patched(old, new, offset, w, zeros) ==
    /\ Len(new) = IF offset + Len(w) > Len(old) THEN offset + Len(w) ELSE Len(old)
    /\ \A i \in DOMAIN new :
          IF i > offset /\ i <= offset + Len(w) THEN new[i] = w[i - offset]
          ELSE IF i <= Len(old) THEN new[i] = old[i]
          ELSE zeros => new[i] = 0

Changes(f) == data' = [data EXCEPT ![f] = data'[f]]

Write(f) ==
    /\ Exists(f) /\ Changes(f) /\ data'[f] # Absent /\ UNCHANGED rough
    /\ \E offset \in Offsets, w \in Payloads : Patched(data[f], data'[f], offset, w, f \notin rough)

\* Some of the bytes are written, as far as the file reaches.
FailedWrite(f) ==
    /\ Exists(f) /\ Changes(f) /\ data'[f] # Absent /\ rough' = rough \cup {f}
    /\ Len(data'[f]) = Len(data[f])
    /\ \E offset \in Offsets, w \in Payloads : \E n \in 0 .. Len(w) :
          \A i \in DOMAIN data[f] :
             data'[f][i] = IF i > offset /\ i <= offset + n THEN w[i - offset] ELSE data[f][i]

Cut(f) ==
    /\ Exists(f) /\ rough' \in {rough, rough \cup {f}}
    /\ \E n \in 0 .. Len(data[f]) : data' = [data EXCEPT ![f] = SubSeq(@, 1, n)]

\* The size stays, and what was to be cut off is zeros.
FailedCut(f) ==
    /\ Exists(f) /\ UNCHANGED rough
    /\ \E n \in 0 .. Len(data[f]) :
          data' = [data EXCEPT ![f] = [i \in DOMAIN @ |-> IF i <= n THEN @[i] ELSE 0]]

\* rename copies: f holds the first bytes of g, and then more of them or, after a failure, the same.
Copy(f, g) ==
    /\ Exists(f) /\ Exists(g) /\ rough' \in {rough, rough \cup {f}}
    /\ \E n \in Len(data[f]) .. Len(data[g]) : data' = [data EXCEPT ![f] = SubSeq(data[g], 1, n)]

Next ==
    \E f \in Files :
       \/ Create(f) \/ Delete(f) \/ Write(f) \/ FailedWrite(f) \/ Cut(f) \/ FailedCut(f)
       \/ \E g \in Files \ {f} : Copy(f, g)

Spec == Init /\ [][Next]_vars
=============================================================================
