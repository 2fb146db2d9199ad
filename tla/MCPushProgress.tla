---------------------------- MODULE MCPushProgress ---------------------------
EXTENDS PushProgress

\* Every registration names all subjects.
All == {Subjects}

=============================================================================
