CONSTANTS
    HOSTS <- MC_HOSTS
    CROSS_AFFECTED <- MC_CROSS_AFFECTED
    CROSS_SAFE <- MC_CROSS_SAFE
    INV <- MC_INV
    RECOMP <- MC_RECOMP
    NODE_RECOMP <- MC_NODE_RECOMP
    CROSS_DISC_RECON <- MC_CROSS_DISC_RECON
    DESCRIPTIONS <- MC_DESCRIPTIONS
SPECIFICATION Spec
CHECK_DEADLOCK FALSE
INVARIANT CircleCountMatchesNodes
