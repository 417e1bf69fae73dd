------------------------ MODULE MC_MembershipManager ------------------------
EXTENDS MembershipManager

CONSTANTS s1, s2, s3

MCServers == {s1, s2, s3}
=============================================================================
