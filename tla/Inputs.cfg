SPECIFICATION Inputs
CONSTANTS
    Bytes <- MCBytes
    Slots = 2
    Descs <- MCDescs
    MaxDescs = 5
    MaxEndpoints = 3
    MaxInterfaces = 2
INVARIANTS ShortFormsAgree FilterSelects ParsesBack
\* Inputs have a longest form.
CHECK_DEADLOCK FALSE
