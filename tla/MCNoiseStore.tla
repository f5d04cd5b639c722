------------------------------ MODULE MCNoiseStore ------------------------------
\* NoiseStore with the symmetry of its processes, hubs and hub keys.
EXTENDS NoiseStore, TLC

Symmetry ==
  Permutations(Processes) \cup Permutations(Nodes) \cup Permutations(HubKeys)

================================================================================
