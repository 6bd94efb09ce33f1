---------------------------- MODULE LetterStore ----------------------------
(***************************************************************************)
(* What the offline path promises of a letter, with no queue, table, relay *)
(* slot or request in sight.  A letter that was saved is kept until it is  *)
(* handed to its recipient or has expired.  One that was not is lost, at   *)
(* worst, with the process of its sender; what that process had under way  *)
(* may still arrive.  Nothing is handed out after it has expired, and a    *)
(* letter that is gone does not come back.                                 *)
(***************************************************************************)
EXTENDS Naturals, Sequences

CONSTANTS Recipient, Ttl    \* who letters are written to, and their times to live

VARIABLES clock,
          letters,    \* the letters, in the order in which they were written
          fate        \* what has become of each

letterVars == <<clock, letters, fate>>

LetterInit == clock = 0 /\ letters = << >> /\ fate = << >>

Write ==
  /\ \E to \in Recipient, ttl \in Ttl :
       letters' = Append(letters, [to |-> to, created |-> clock, expires |-> clock + ttl])
  /\ fate' = Append(fate, "written")
  /\ UNCHANGED clock

Keep(l) ==
  /\ fate[l] = "written"
  /\ fate' = [fate EXCEPT ![l] = "kept"]
  /\ UNCHANGED <<clock, letters>>

\* Any number of letters moves at once, each in one of its moves.
Fates(moves) ==
  /\ UNCHANGED <<clock, letters>>
  /\ DOMAIN fate' = DOMAIN fate
  /\ \A l \in DOMAIN fate : fate'[l] = fate[l] \/ <<fate[l], fate'[l]>> \in moves[l]

\* What may happen to a letter that has expired, and in its last second.
HandedOut  == {"written", "kept"} \X {"handed"}
ThrownAway == ({"written"} \X {"adrift", "gone"}) \cup {<<"kept", "gone">>}
Overdue(l) == IF letters[l].expires <= clock THEN ThrownAway ELSE {}

\* The sender's process dies.
Die ==
  Fates([l \in DOMAIN fate |-> ({"written", "adrift"} \X {"adrift", "gone"}) \cup Overdue(l)])

\* What outlived its sender arrives after all, or does not.
Drift == Fates([l \in DOMAIN fate |-> {"adrift"} \X {"written", "gone"}])

\* The recipient collects; whoever finds expired letters throws them away.
Collect ==
  Fates([l \in DOMAIN fate |-> (IF clock <= letters[l].expires THEN HandedOut ELSE {})
                                \cup Overdue(l)])

Pass ==
  /\ clock' = clock + 1
  /\ UNCHANGED <<letters, fate>>

LetterNext == Write \/ Pass \/ Collect \/ Drift \/ Die \/ \E l \in DOMAIN fate : Keep(l)

LetterSpec == LetterInit /\ [][LetterNext]_letterVars
=============================================================================
