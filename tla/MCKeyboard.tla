----------------------------- MODULE MCKeyboard -----------------------------
(* A key that decodes to nothing by itself (Shift), one that is a          *)
(* character, and one that is an escape sequence (an arrow).               *)
EXTENDS Keyboard

MCScancodes == {"shift", "a", "up"}
MCDecode == [sc \in MCScancodes |->
               CASE sc = "shift" -> <<>>
                 [] sc = "a"     -> <<"a">>
                 [] sc = "up"    -> <<"esc", "[", "A">>]
=============================================================================
