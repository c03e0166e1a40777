------------------------------ MODULE MCSearch ------------------------------
(* Instances of Search for TLC: seven paths, every short pattern and text, *)
(* and two threads.                                                        *)
EXTENDS Search, MCDictionary

TextData == INSTANCE MCPathText
MCTexts == TextData!MCTexts
=============================================================================
