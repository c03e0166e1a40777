------------------------------- MODULE Glob ---------------------------------
(***************************************************************************)
(* glob_match of paths.cpp, the loop behind redfs_find: two pointers, and  *)
(* one remembered '*' to fall back to instead of recursion.  One action    *)
(* per turn of the loop; strings are sequences of characters, and pointer  *)
(* n stands before character n, so one past the end is the NUL.            *)
(***************************************************************************)
EXTENDS Naturals, Sequences

CONSTANTS
    Chars,      \* characters other than the two wildcards
    MaxPattern, \* bound on the length of a pattern
    MaxText     \* bound on the length of a text

VARIABLES
    pattern, text,  \* the two strings
    p, t,           \* the two pointers
    star, resume,   \* 0: null
    result          \* "running", "yes" or "no"

vars == <<pattern, text, p, t, star, resume, result>>

Strings(S, n) == UNION {[1..k -> S] : k \in 0..n}
Pattern == Strings(Chars \cup {"*", "?"}, MaxPattern)
Text == Strings(Chars \cup {"*", "?"}, MaxText)

(* The pointers stay inside their strings, the NUL included.               *)
TypeOK ==
    /\ pattern \in Pattern /\ text \in Text
    /\ p \in 1..(Len(pattern) + 1) /\ t \in 1..(Len(text) + 1)
    /\ star \in 0..Len(pattern) /\ resume \in 0..(Len(text) + 1)
    /\ result \in {"running", "yes", "no"}

(* redfs_find refuses an empty pattern before it gets here.                *)
Init ==
    /\ pattern \in Pattern \ {<<>>} /\ text \in Text
    /\ p = 1 /\ t = 1 /\ star = 0 /\ resume = 0
    /\ result = "running"

AtPattern(c) == p <= Len(pattern) /\ pattern[p] = c
Running == result = "running" /\ t <= Len(text)

IsStar_LiteralFirst == AtPattern("*") /\ text[t] # "*"
(* The '*' test comes before the literal one: a text may hold a '*' too.   *)
IsStar == AtPattern("*")
IsLiteral == AtPattern("?") \/ AtPattern(text[t])

Star ==
    /\ Running /\ IsStar
    /\ star' = p /\ p' = p + 1
    /\ resume' = t
    /\ UNCHANGED <<pattern, text, t, result>>

Literal ==
    /\ Running /\ ~IsStar /\ IsLiteral
    /\ p' = p + 1 /\ t' = t + 1
    /\ UNCHANGED <<pattern, text, star, resume, result>>

Resume_Same == resume
Resume == resume + 1

(* A mismatch: the last star swallows one more character.                  *)
Backtrack ==
    /\ Running /\ ~IsStar /\ ~IsLiteral /\ star # 0
    /\ p' = star + 1
    /\ t' = Resume /\ resume' = Resume
    /\ UNCHANGED <<pattern, text, star, result>>

Mismatch ==
    /\ Running /\ ~IsStar /\ ~IsLiteral /\ star = 0
    /\ result' = "no"
    /\ UNCHANGED <<pattern, text, p, t, star, resume>>

(* The text is used up: trailing stars are skipped, nothing else may stay. *)
Trailing == \A k \in p..Len(pattern) : pattern[k] = "*"

Finish ==
    /\ result = "running" /\ t = Len(text) + 1
    /\ result' = IF Trailing THEN "yes" ELSE "no"
    /\ UNCHANGED <<pattern, text, p, t, star, resume>>

Next == Star \/ Literal \/ Backtrack \/ Mismatch \/ Finish

Spec == Init /\ [][Next]_vars
FairSpec == Spec /\ WF_vars(Next)

----------------------------------------------------------------------------
(* What redfs.h says a pattern means: '*' is any run of characters, '?'    *)
(* exactly one, anything else itself.  The pattern from i on matches the   *)
(* text from each of the places in Rest(pat, txt)[i] on.                   *)
Rest(pat, txt) ==
    LET R[i \in 1..(Len(pat) + 1)] ==
            IF i > Len(pat) THEN {Len(txt) + 1}
            ELSE IF pat[i] = "*" THEN {k \in 1..(Len(txt) + 1) : \E n \in R[i + 1] : k <= n}
            ELSE {k \in 1..Len(txt) : pat[i] \in {"?", txt[k]} /\ k + 1 \in R[i + 1]}
    IN  R

Matches(pat, txt) == 1 \in Rest(pat, txt)[1]

(* Forgetting all but the last star loses no match: the loop answers as    *)
(* the definition does, for texts that hold a '*' too.                     *)
Correct == result # "running" => (result = "yes" <=> Matches(pattern, text))

(* The loop stops on every pattern and text.                               *)
Terminates == <>(result # "running")

=============================================================================
