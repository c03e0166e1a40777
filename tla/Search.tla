------------------------------- MODULE Search -------------------------------
(***************************************************************************)
(* From a text to a file: the dictionary of paths, the matching of one     *)
(* pattern against one path, what becomes of the texts a host gives, and   *)
(* the locks under which it all happens.  `asked' is the part that works;  *)
(* the others stay as they are.                                            *)
(***************************************************************************)
EXTENDS Dictionary

CONSTANTS
    Chars, MaxPattern, MaxText,          \* Glob
    MaxDecoded, MaxExpansion, Texts,     \* PathText
    HostThreads, MaxSteps                \* Locks

ASSUME GlobAssumption == MaxPattern \in Nat /\ MaxText \in Nat
ASSUME LocksAssumption == "nobody" \notin HostThreads

VARIABLES asked, pattern, text, p, t, star, resume, result, input, output, owner, todo

G == INSTANCE Glob
P == INSTANCE PathText
L == INSTANCE Locks WITH Threads <- HostThreads

(* A text is a sequence of characters.  The patterns PathText is about have *)
(* no wildcards (Glob does), and the paths of a depot are sanitized.        *)
IsText(s) == s \in Seq(Range(s))
IsDepot(files) == \A d \in files : IsText(d) /\ d # <<>> /\ P!Sanitize(d) = d
ASSUME TextsAssumption ==
    \A x \in Texts :
        /\ x.op \in {"hash", "find"} => IsText(x.text)
        /\ x.op = "find" => Range(x.text) \cap {"*", "?"} = {}
        /\ x.op = "load" => \A k \in DOMAIN x.lines : IsText(x.lines[k])
        /\ x.op \in {"find", "load"} => IsDepot(x.depot)

globVars == <<pattern, text, p, t, star, resume, result>>
textVars == <<input, output>>
lockVars == <<owner, todo>>
searchVars == <<asked, vars, globVars, textVars, lockVars>>

NoMatch == pattern = <<>> /\ text = <<>> /\ p = 1 /\ t = 1 /\ star = 0 /\ resume = 0 /\ result = "no"
NoText == input = <<>> /\ output = <<>>
NoCalls == owner = <<>> /\ todo = <<>>

SearchInit ==
    /\ Init
    /\ \/ asked = "dictionary" /\ NoMatch /\ NoText /\ NoCalls
       \/ asked = "match" /\ G!Init /\ NoText /\ NoCalls
       \/ asked = "text" /\ NoMatch /\ P!Init /\ NoCalls
       \/ asked = "locks" /\ NoMatch /\ NoText /\ L!Init

UseDictionary == asked = "dictionary" /\ Next /\ UNCHANGED <<asked, globVars, textVars, lockVars>>
GlobMatch == asked = "match" /\ G!Next /\ UNCHANGED <<asked, vars, textVars, lockVars>>
ReadText == asked = "text" /\ P!Next /\ UNCHANGED <<asked, vars, globVars, lockVars>>
CallRedFS == asked = "locks" /\ L!Next /\ UNCHANGED <<asked, vars, globVars, textVars>>

SearchNext == UseDictionary \/ GlobMatch \/ ReadText \/ CallRedFS

(* The loop of glob_match runs until it returns.                           *)
SearchSpec == SearchInit /\ [][SearchNext]_searchVars /\ WF_searchVars(GlobMatch)

-----------------------------------------------------------------------------
(* Glob: the loop answers as the definition of the pattern language does.  *)
GlobCorrect == asked = "match" => G!TypeOK /\ G!Correct

(* Glob: the loop ends on every pattern and text.                          *)
GlobTerminates == asked = "match" => G!Terminates

(* PathText: every spelling of a path names the same file.                 *)
SpellingsAgree == asked = "text" => P!SpellingsAgree

(* Locks: no threads wait for each other, nor one for itself.              *)
NeverStuck == asked = "locks" => L!NeverStuck
=============================================================================
