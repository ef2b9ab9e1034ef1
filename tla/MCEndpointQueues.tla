-------------------------- MODULE MCEndpointQueues --------------------------
EXTENDS EndpointQueues
=============================================================================
