------------------------------ MODULE Redactor ------------------------------
(***************************************************************************)
(* The masking of secrets in a container's log as it streams through the   *)
(* agent (internal/agent/redactor.go).  Frames cut the log anywhere; the   *)
(* redactor holds back as many bytes as a secret could still be completed  *)
(* from.  The secrets come out of a Go map, in any order.                  *)
(***************************************************************************)
EXTENDS Naturals, Sequences, SequencesExt

CONSTANTS
  Bytes,      \* what the log is made of
  Mask,       \* the byte '*'
  Jobs,       \* the sets of secret values a job may have
  MaxLog      \* bound: bytes a container writes

VARIABLES
  secrets,  \* the secrets, in the order of this redactor
  written,  \* what the container has written, split into frames anywhere
  pending, safe, ended
vars == <<secrets, written, pending, safe, ended>>

TypeOK ==
  /\ secrets \in UNION {SetToSeqs(S) : S \in Jobs}
  /\ written \in Seq(Bytes) /\ pending \in Seq(Bytes \cup {Mask})
  /\ safe \in Seq(Bytes \cup {Mask}) /\ ended \in BOOLEAN
  /\ Len(safe) + Len(pending) = Len(written)

(* newRedactor *)
Init ==
  /\ secrets \in UNION {SetToSeqs(S) : S \in Jobs}
  /\ written = <<>> /\ pending = <<>> /\ safe = <<>> /\ ended = FALSE
max == IF secrets = <<>> THEN 0 ELSE Max({Len(s) : s \in ToSet(secrets)})
keep_TooLittle == IF max <= 1 THEN 0 ELSE max - 2
keep == IF max = 0 THEN 0 ELSE max - 1

Occurs(s, data, i) ==
  i + Len(s) - 1 <= Len(data) /\ \A k \in DOMAIN s : data[i + k - 1] = s[k]

(* One secret: its occurrences are found from left to right, each search   *)
(* starting behind the last.  Found(s, data)[i] is where the last one up   *)
(* to i begins.                                                            *)
Found(s, data) ==
  LET last[i \in 0 .. Len(data)] ==
        IF i = 0 THEN 0
        ELSE IF /\ Occurs(s, data, i)
                /\ last[i - 1] = 0 \/ last[i - 1] + Len(s) <= i
             THEN i ELSE last[i - 1]
  IN last
MaskOne_OneMore(s, data) ==
  LET last == Found(s, data)
  IN [i \in DOMAIN data |->
        IF last[i] # 0 /\ i <= last[i] + Len(s) THEN Mask ELSE data[i]]
MaskOne(s, data) ==
  LET last == Found(s, data)
  IN [i \in DOMAIN data |->
        IF last[i] # 0 /\ i < last[i] + Len(s) THEN Mask ELSE data[i]]

mask(data) == FoldLeft(LAMBDA masked, s : MaskOne(s, masked), data, secrets)

(* Push: what is held back is kept masked, so that a secret found now is   *)
(* not taken for the beginning of another one later.                       *)
Push_HoldsRaw(data) ==
  LET combined == pending \o data
      cut == Len(combined) - keep
  IN IF cut <= 0 THEN pending' = combined /\ UNCHANGED safe
     ELSE /\ safe' = safe \o SubSeq(mask(combined), 1, cut)
          /\ pending' = SubSeq(combined, cut + 1, Len(combined))
Push(data) ==
  LET combined == pending \o data
      cut == Len(combined) - keep
  IN IF cut <= 0 THEN pending' = combined /\ UNCHANGED safe
     ELSE /\ safe' = safe \o SubSeq(mask(combined), 1, cut)
          /\ pending' = SubSeq(mask(combined), cut + 1, Len(combined))

(* Flush: the log has ended. *)
Flush_Drops == safe' = safe /\ pending' = <<>>
Flush == safe' = safe \o mask(pending) /\ pending' = <<>>

(* A frame from Docker, of any length. *)
Frame ==
  /\ ~ended
  /\ \E n \in 1 .. MaxLog - Len(written) : \E data \in [1 .. n -> Bytes] :
       written' = written \o data /\ Push(data)
  /\ UNCHANGED <<secrets, ended>>

End == ~ended /\ ended' = TRUE /\ Flush /\ UNCHANGED <<secrets, written>>

Next == Frame \/ End
Spec == Init /\ [][Next]_vars

-----------------------------------------------------------------------------
(* Properties. *)

(* However the frames cut the log, no secret leaves the agent whole.       *)
NoSecretGetsThrough ==
  \A s \in ToSet(secrets) : \A i \in DOMAIN safe : ~Occurs(s, safe, i)

(* With one secret the framing makes no difference at all: what is shown,  *)
(* and what will be, is the whole log masked at once.                      *)
FramingDoesNotMatter ==
  Len(secrets) = 1 => safe \o mask(pending) = mask(written)

(* Nothing but secrets is hidden, and nothing moves: a reader's offsets    *)
(* into the log count the bytes the container wrote.                       *)
OnlySecretsHidden ==
  \A i \in DOMAIN safe : safe[i] # written[i] =>
    /\ safe[i] = Mask
    /\ \E s \in ToSet(secrets), k \in 1 .. i : Occurs(s, written, k) /\ i < k + Len(s)

(* Why they hold: the inductive invariant, about what is shown and held    *)
(* back together.                                                          *)
Masked == safe \o pending

(* What is held back is less than a secret, once anything has been shown.  *)
HeldBack ==
  /\ ended => pending = <<>>
  /\ safe # <<>> /\ ~ended => Len(pending) = keep
  /\ safe = <<>> => pending = written

(* No secret is left in it, *)
NoneIsLeft ==
  safe # <<>> => \A s \in ToSet(secrets) : \A i \in DOMAIN Masked : ~Occurs(s, Masked, i)

(* with one secret it is the whole log masked, *)
OneIsMasked == Len(secrets) = 1 /\ safe # <<>> => Masked = mask(written)

(* and what is hidden belongs to a secret. *)
HiddenIsSecret ==
  \A i \in DOMAIN Masked : Masked[i] # written[i] =>
    /\ Masked[i] = Mask
    /\ \E s \in ToSet(secrets), k \in 1 .. i : Occurs(s, written, k) /\ i < k + Len(s)

IInv == TypeOK /\ HeldBack /\ NoneIsLeft /\ OneIsMasked /\ HiddenIsSecret

=============================================================================
