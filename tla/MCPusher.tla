------------------------------ MODULE MCPusher -------------------------------
EXTENDS Pusher

\* A registration with a wildcard that selects every subject.
All == {Subjects}

=============================================================================
