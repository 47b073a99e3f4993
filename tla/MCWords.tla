------------------------------ MODULE MCWords -------------------------------
(* Instances of Words for TLC.                                              *)
EXTENDS Words

MCLetters  == { "a", "b" }
MCDigits   == { "1" }
MCCode     == << "1", "0" >>
MCPathName == << "P" >>

Strings(n, S) == UNION { [1 .. k -> S] : k \in 1 .. n }

\* Every line of four characters, with spaces of both kinds, with everything
\* that is special, and with an unknown operator; longer lines of quotes,
\* dollars and names.
MCTexts == Strings(4, { "a", "1", " ", "\r", "'", "\"", "|", ">", "<", ";", "$", "?" })
           \cup Strings(6, { "a", "'", "\"", "$", " " })

\* a is set to a value with special characters, a1 to nothing, b and 1 are not.
MCEnv == ( << "a" >> :> << "b", " ", "$", "a" >> ) @@ ( << "a", "1" >> :> << >> )

\* Every PATH of up to five characters, and a longer one, for names that
\* are in both, in one, in none, that have a slash, and that come of a variable.
Paths == Strings(5, { "d", "e", ":" })
         \cup { << "d", "d", ":", ":", "d", ":", "e" >>, << >> }
MCFiles == { << "d", "/", "a" >>, << "e", "/", "a" >>, << "d", "e", "/", "a" >>,
             << "e", "/", "b" >>, << "/", "a" >> }
Names == { << "a" >>, << "b" >>, << "1" >>, << "e", "/", "b" >>, << "." >>,
           << "$", "a" >>, << "'", "b", "'", " ", "a" >>, << "$", "b" >> }

MCInputs == { << t, MCEnv >> : t \in MCTexts }
            \cup { << n, MCPathName :> p >> : n \in Names, p \in Paths }
AllTexts == { i[1] : i \in MCInputs }
=============================================================================
