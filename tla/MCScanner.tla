----------------------------- MODULE MCScanner ------------------------------
(* Sources about numbers (those of C too), about words (one keyword, and    *)
(* what may precede or follow it), and about all else that the rules tell   *)
(* apart; ? begins no token.                                                *)
EXTENDS ScannerSafety
MCAlphabets == {{"0", ".", "e", "x", "+", " "}, {"o", "r", "x", "0", "?", " "},
                {"\"", "/", "\n", "=", "!", "o", "0"}}
=============================================================================
