------------------------------ MODULE HtmlText ------------------------------
(* The reduction of a page to its readable text: the parser reports tags and *)
(* text in order, and the extractor keeps text while its count of elements   *)
(* to be skipped (script, style, head...) is zero.                           *)
(*                                                                          *)
(* Beside it runs what a page means: the elements really open, where an      *)
(* opening body closes a head that was left open, as HTML allows, and an end *)
(* tag that closes nothing is ignored.                                       *)
EXTENDS Naturals, Sequences

CONSTANT MaxTokens

VARIABLES depth,       \* _skip_depth
          stack,       \* the elements really open
          kept, due,   \* numbers of the texts kept, and of those to be kept
          seen,        \* tokens so far
          odd          \* what the tags left to be guessed: "implied" ends, "stray" ones

vars == <<depth, stack, kept, due, seen, odd>>

(* What the constant is. *)
ConstantsFit == MaxTokens \in Nat

Skipped == {"head", "script"}
Init == depth = 0 /\ stack = <<>> /\ kept = {} /\ due = {} /\ seen = 0 /\ odd = {}

Read == seen < MaxTokens /\ seen' = seen + 1
Skipping == \E i \in DOMAIN stack : stack[i] \in Skipped
Innermost == stack[Len(stack)]

(* A head is the first element that is open, and a body closes it. *)
HeadClosed == IF stack # <<>> /\ stack[1] = "head" THEN Tail(stack) ELSE stack

(* handle_starttag.  A script is only text to the parser, so nothing opens   *)
(* in it; a body may come while the head is open. *)
Start ==
    /\ Read
    /\ \E tag \in Skipped \cup {"body", "div"} :
          /\ stack # <<>> => Innermost # "script"
          /\ tag = "head" => stack = <<>>
          /\ depth' = IF tag \in Skipped THEN depth + 1 ELSE depth
          /\ stack' = Append(IF tag = "body" THEN HeadClosed ELSE stack, tag)
          /\ odd' = IF tag = "body" /\ HeadClosed # stack THEN odd \cup {"implied"} ELSE odd
    /\ UNCHANGED <<kept, due>>

(* handle_startendtag: `<svg/>` opens and closes nothing. *)
Empty == Read /\ UNCHANGED <<depth, stack, kept, due, odd>>

(* Mutant: the count may pass below zero. *)
DownFreely == depth' = depth - 1

Down == depth' = IF depth > 0 THEN depth - 1 ELSE 0

(* handle_endtag, of the element open... *)
End ==
    /\ Read /\ stack # <<>>
    /\ IF Innermost \in Skipped THEN Down ELSE UNCHANGED depth
    /\ stack' = SubSeq(stack, 1, Len(stack) - 1)
    /\ UNCHANGED <<kept, due, odd>>
(* ...or of a skipped one that was never opened; in a script that is text. *)
Stray ==
    /\ Read /\ (stack # <<>> => Innermost # "script")
    /\ Down
    /\ odd' = IF Skipping THEN odd \cup {"stray"} ELSE odd
    /\ UNCHANGED <<stack, kept, due>>

(* handle_data. *)
Data ==
    /\ Read
    /\ kept' = IF depth = 0 THEN kept \cup {seen} ELSE kept
    /\ due' = IF Skipping THEN due ELSE due \cup {seen}
    /\ UNCHANGED <<depth, stack, odd>>

Next == Start \/ Empty \/ End \/ Stray \/ Data
Spec == Init /\ [][Next]_vars

-----------------------------------------------------------------------------
(* The text of the page outside the elements that are skipped is kept, unless *)
(* a head was left open; and no other text is, unless an end tag that closes  *)
(* nothing came in an element that is skipped. *)
PageHolds ==
    /\ "implied" \notin odd => due \subseteq kept
    /\ "stray" \notin odd => kept \subseteq due
=============================================================================
