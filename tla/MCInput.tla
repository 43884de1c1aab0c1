------------------------------ MODULE MCInput ------------------------------
(* A key that toggles the camera, a motion key and the key that grabs the pointer
   of the camera, and a key with a modifier that was configured as a lower-case
   keysym. *)
EXTENDS Input
Handler(k, s, p, u, g, a) ==
    [key |-> k, state |-> s, press |-> p, upper |-> u, guarded |-> g, action |-> a]
MCKey == {"a", "b"}
MCWindow == {"w1", "w2"}
MCHandlers ==
    << Handler("a", "plain", TRUE, TRUE, FALSE, "toggle"),
       Handler("b", "plain", TRUE, TRUE, TRUE, "move"),
       Handler("b", "plain", FALSE, TRUE, TRUE, "move"),
       Handler("b", "shifted", TRUE, TRUE, TRUE, "grab"),
       Handler("a", "shifted", TRUE, FALSE, FALSE, "flag") >>
\* The key of screenshot.c alone, which is pressed with modifiers.
MCScreenshot == << Handler("a", "shifted", TRUE, TRUE, FALSE, "flag") >>
MCMasks == {{"other"}}
MCTyped == {"other"}
=============================================================================
