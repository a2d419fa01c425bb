--------------------------- MODULE MCBrowserSessions ---------------------------
(* Two operators, two tabs of one browser, two sessions, two logins or       *)
(* step-ups and two requests at work: the operators sign on in the two tabs, *)
(* or one of them signs on and steps up while the other has the keyboard.    *)
EXTENDS BrowserSessions, TLC

Symmetry == Permutations(Operators) \cup Permutations(Transactions)
              \cup Permutations(Sessions) \cup Permutations(Tabs) \cup Permutations(Handlers)
===============================================================================
