------------------------------ MODULE MCServer ------------------------------
EXTENDS Server

CONSTANTS language, model

MCChanges == {{language}, {language, model}}

\* Nothing, one that asks for removal too and would be loaded nevertheless, and a
\* certificate or key.
MCPosted ==
  {[size |-> 0, begins |-> FALSE], [size |-> 2, begins |-> TRUE], [size |-> 3, begins |-> TRUE]}

\* One that a start forgets, and one that it just keeps.
MCPasswords == {[text |-> "", length |-> 0], [text |-> "kept", length |-> 99]}
=============================================================================
