--------------------------- MODULE MCRusshProvider --------------------------
EXTENDS RusshProvider

\* Two keys of one algorithm, and one of another.
MCHostKey == {<<"ed25519", 1>>, <<"ed25519", 2>>, <<"rsa", 1>>}

MCDisk(work, ed, rsa) ==
  [f \in KeyFile |-> CASE f = "id_work" -> work [] f = "id_ed25519" -> ed
                       [] f = "id_rsa" -> rsa [] OTHER -> "missing"]
MCDisks == {MCDisk("locked", "plain", "missing"), MCDisk("missing", "missing", "missing")}
MCRecords == {{}, {<<"ed25519", 1>>}}
MCDefault == <<"id_ed25519", "id_ecdsa", "id_rsa">>

MCHostName == <<"a", "b">>
Globs == {<<"*">>, <<"a", "?">>, <<"b", "*">>}
Clauses == SeqOf({Wanted(g) : g \in Globs} \cup {Unwanted(g) : g \in Globs}, 2)
MCConfigs ==
  {<<HostLine(p), OtherLine, IdentityLine("id_work")>> : p \in Clauses}
    \cup {<<HostLine(<<Wanted(g)>>), IdentityLine("id_ed25519"),
            HostLine(<<Wanted(h)>>), IdentityLine("id_work")>> : g, h \in Globs}

Message(kind, value) == [kind |-> kind, value |-> value]
Data1 == Message("data", 1)
Status == Message("status", 0)
Signal == Message("signal", 3)
Closed == Message("close", 0)
MCMessages ==
  {<<>>, <<Data1>>, <<Data1, Message("stderr", 2), Data1>>, <<Status, Data1, Closed>>,
   <<Message("other", 0), Status, Signal>>, <<Signal, Status, Message("data", 2)>>,
   <<Data1, Closed, Status, Data1>>}
=============================================================================
