----------------------------- MODULE MCConsole ------------------------------
(* Values for the model checker of the constants of module Console.        *)
EXTENDS Console

AllChars   == {"a"} \cup Controls
LineChars  == {"a", "LF"}
KeyChars   == {"b", "LF", "BS", "TAB"}
NoChars    == {}
=============================================================================
