------------------------------- MODULE MCPkVm -------------------------------
EXTENDS PkVm

MCProts    == {{"R"}}
MCNewProts == {{"R"}, {"W"}}
=============================================================================
