----------------------------- MODULE MCDirectory -----------------------------
(* An instance of Directory and Environment for TLC.                        *)
EXTENDS Directory

V(v) == << v >>
E(n, v) == << n, v >>

set(n, v) == Request("set", << n >>, v)
bad       == Request("bad", << "1x" >>, << "" >>)
plain     == Request("plain", << "A" >>, << "" >>)

MCParts      == STRING
MCDirs       == { V("/a"), V("/b") }
MCDeep       == { V("/deep") }
MCShellPath  == V("minishell")
MCFirstLevel == V("1")
MCValues     == { V("1"), V("2"), V("/a"), V("/b"), V("/deep"), V("minishell"),
                  V(""), V("x"), V("huge"), << "B", "x" >> }
MCNextLevel  == [v \in MCValues |-> IF v = V("1") THEN V("2") ELSE V("1")]

\* Strings that hold "huge" do not fit the arena, which has room for ten
\* pointers: an array of nine entries, or of eight and growth refused.
MCOversized == { E(n, "huge") : n \in { "A", "B", "C" } }

\* None; one entry, whose array must grow; one with a duplicate, a value with an
\* "=" and an entry without; one
\* that leaves no room for OLDPWD; one with an entry that does not fit; one
\* whose array is refused.
MCEnvirons ==
    { << >>,
      << E("A", "x") >>,
      << E("A", "x"), << "A", "B", "x" >>, << "B" >>, E("SHLVL", "1") >>,
      << E("HOME", "/b"), E("AB", ""), E("SHLVL", "x") >>,
      << E("SHELL", "x"), E("SHLVL", "1"), E("PWD", "/a"), E("A", "huge") >>,
      << E("A", "x"), E("B", "x"), E("C", "x"), E("D", "x"), E("E", "x") >> }

MCExports ==
    { << plain, bad, set("A", << "B", "x" >>) >>,
      << set("B", V("x")), bad, set("C", V("")), set("D", V("1")) >>,
      << set("AB", V("")), set("B", V("")) >>,
      << bad, set("B", V("huge")) >>,
      << set("OLDPWD", V("x")) >> }

MCUnsets == { << << "A" >>, << "HOME" >> >>, << << "A", "B" >>, << "D" >> >>, << << "OLDPWD" >> >> }
==============================================================================
