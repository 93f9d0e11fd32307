----------------------------- MODULE MCHdfsStack -----------------------------
EXTENDS HdfsStack

MCLines == {<<"HdfsGateway", <<"a", ",", "b">>>>,
            <<"HdfsGateway", <<" ", "a", ",", "a", " ", ",">>>>,
            <<"HdfsGateway", <<"b", ",", " ">>>>,
            <<"TokenId", <<"d", "n">>>>,
            <<"TokenPassword", <<"p">>>>,
            <<"HdfsReplication", <<"0">>>>,
            <<"HadoopHomeLib", <<"h">>>>,
            <<"HdfsHomeLib", <<"g">>>>,
            <<"JavaHome", << >>>>,
            <<"JavaHome", <<"j">>>>}

MCNumber == [v \in {l[2] : l \in MCLines} |-> 0]
MCFolders == {<<"h">>, <<"h", "/", "l", "i", "b">>}
MCJars == [d \in MCFolders |-> {Append(d, "j")}]
MCPaths == {[rooted |-> TRUE, names |-> <<"home">>],
            [rooted |-> FALSE, names |-> <<"home">>]}
MCHome == <<"home">>
MCAddress == [c \in Clients |-> IF c = "bob" THEN "10.2" ELSE "10.1"]
=============================================================================
