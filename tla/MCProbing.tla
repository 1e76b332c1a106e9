----------------------------- MODULE MCProbing -----------------------------
EXTENDS Probing

MCPaths == [v \in Vips |-> Endpoints]
MCHost == [ep \in Endpoints |-> 1]
=============================================================================
